---------------------------- MODULE Spec2Model ----------------------------
(***************************************************************************)
(* A model of the bevy_htnp planner: the fact model (src/data.rs), the     *)
(* task catalog (src/tasks.rs) and the time-sliced tree search             *)
(* (src/planning/plan_data.rs).                                            *)
(*                                                                         *)
(* Representation                                                          *)
(*   Option<T>        a sequence of length 0 (None) or 1 (Some(x))         *)
(*   HashMap<K, V>    a function whose DOMAIN is the set of keys           *)
(*   Vec / VecDeque   a sequence                                           *)
(*   f32              an integer (NaN and rounding are not modelled)       *)
(*   Arc<Node<T>>     the node record itself: nodes are immutable, so a    *)
(*                    shared parent and a copy of it are the same value    *)
(***************************************************************************)
EXTENDS Integers, Sequences, FiniteSets, TLC

(***************************************************************************)
(* Bounds of the model.                                                    *)
(***************************************************************************)
\* longest available-task list handed to new_initialized
MaxTasks == 3
\* largest max_node_depth handed to the generate calls
MaxDepth == 4
\* number of search passes (seedings) explored in one behaviour
MaxPasses == 2
\* longest available-task list of the termination check
MaxFairTasks == 2
\* longest goal list handed to new_initialized
MaxGoals == 2
\* longest available-task list of the goal-list checks
MaxGoalTasks == 2
\* max_node_depth of the goal-list checks
MaxGoalDepth == 1
\* most sub-tasks of a composite task
MaxSubTasks == 2
\* most keys of a world handed to the fact model's functions
MaxWorldKeys == 2
\* most tasks of a plan handed to an agent
MaxPlanLen == 3
\* number of threads that intern names
MaxThreads == 2
\* number of UniqueName::new calls in one behaviour
MaxCalls == 3
\* longest available-task list holding an unregistered task
MaxLookupTasks == 3
\* the deepest depth limit of the searches under every limit
MaxSearchDepth == 2

VARIABLES
    active_nodes,     \* TimeSlicedTreeGen.active_nodes: the frontier
    valid_nodes,      \* TimeSlicedTreeGen.valid_nodes: accepted leaves
    goals,            \* TimeSlicedTreeGen.goals
    plans,            \* TimeSlicedTreeGen.plans: goal name -> Plan
    available_tasks,  \* TimeSlicedTreeGen.available_tasks
    current_world,    \* the WorldState the host passes to the generate calls
    max_node_depth,   \* the Option<u32> the host passes to the generate calls
    hash_seed,        \* iteration order of the HashMaps (std RandomState)
    pc,               \* position inside a generate call
    goal,             \* the local `goal` of the running generate call
    duration,         \* the `duration` argument of the running call
    passes,           \* number of seedings so far
    modes,            \* history: the generate functions called in this pass
    found,            \* history: costs of the leaves this planner accepted
    first_plans,      \* history: final plan table of the previous planner
    seed_world        \* history: the world the current search pass was seeded from

planner_vars == <<active_nodes, valid_nodes, goals, plans, available_tasks,
                  current_world, max_node_depth, hash_seed, pc, goal, duration,
                  passes, modes, found, first_plans, seed_world>>

\* a call of one of the catalog's or the fact model's functions
VARIABLES
    call,             \* the function called ("" before the call) and its arguments
    ret,              \* the value the call returned
    visited           \* history: the sub-task names a fold visited, in order

call_vars == <<call, ret, visited>>

\* the agent entity the execution systems work on
VARIABLES
    agent_plan,          \* HtnAgentPlan: None, or Some(plan_stack)
    agent_state,         \* HtnAgentState: None, or Some of Running, Success, Failure
    agent_current_task,  \* HtnAgentCurrentTask: None, or Some(name)
    agent_components,    \* names of the tasks whose component is on the entity
    activations          \* history: what TaskData::add / remove did for this plan

execution_vars == <<agent_plan, agent_state, agent_current_task, agent_components,
                    activations>>

\* the goals the agent's providers gave it
VARIABLES
    agent_goals          \* HtnAgent.goals, in the order they were added

\* the process-wide intern table and the threads that call UniqueName::new
VARIABLES
    UNIQUE_NAME_REGISTRY,  \* the HashMap inside the Mutex: text -> Arc
    registry_lock,         \* the Mutex: None, or Some(the thread that holds it)
    threads,               \* per thread: position in UniqueName::new and locals
    arcs,                  \* the Arc allocations made so far: arcs[a] is the
                           \* text that allocation a holds
    handles                \* history: the handles returned, with the text asked for

interning_vars == <<UNIQUE_NAME_REGISTRY, registry_lock, threads, arcs, handles>>

\* the state beside the planner's, beside the function calls', beside the
\* agent's
beside_planner == <<call_vars, execution_vars, interning_vars, agent_goals>>
beside_call == <<execution_vars, interning_vars, agent_goals>>
beside_execution == <<call_vars, interning_vars, agent_goals>>

vars == <<planner_vars, beside_planner>>

None == <<>>
Some(x) == <<x>>
unwrap(o) == o[1]

Last(s) == s[Len(s)]
Front(s) == SubSeq(s, 1, Len(s) - 1)

RECURSIVE Reverse(_)
Reverse(s) == IF s = <<>> THEN <<>> ELSE Append(Reverse(Tail(s)), Head(s))

RECURSIVE SumSeq(_)
SumSeq(s) == IF s = <<>> THEN 0 ELSE Head(s) + SumSeq(Tail(s))

Min(S) == CHOOSE x \in S : \A y \in S : x <= y

(***************************************************************************)
(* src/data.rs: UniqueName, Variant, WorldState, Predicate, Requirements   *)
(***************************************************************************)
\* the texts interned as UniqueName, in the order of str's Ord
NameOrder == <<"A", "B", "door_open", "hungry", "near_door", "room">>

NameRank(s) == CHOOSE i \in 1..Len(NameOrder) : NameOrder[i] = s

\* enum Variant { Bool(bool), String(UniqueName), Number(f32) }
Bool(x) == [tag |-> "Bool", b |-> x, s |-> "", n |-> 0]
String(x) == [tag |-> "String", b |-> FALSE, s |-> x, n |-> 0]
Number(x) == [tag |-> "Number", b |-> FALSE, s |-> "", n |-> x]

\* the discriminant of a Variant, in declaration order
TagRank(v) == CASE v.tag = "Bool" -> 0 [] v.tag = "String" -> 1 [] v.tag = "Number" -> 2

IntCmp(a, b) == IF a < b THEN "Less" ELSE IF a > b THEN "Greater" ELSE "Equal"

\* #[derive(PartialOrd)] on Variant: by discriminant, then by payload
Variant_partial_cmp(a, b) ==
    IF TagRank(a) # TagRank(b) THEN Some(IntCmp(TagRank(a), TagRank(b)))
    ELSE CASE a.tag = "Bool" -> Some(IntCmp(IF a.b THEN 1 ELSE 0, IF b.b THEN 1 ELSE 0))
           [] a.tag = "String" -> Some(IntCmp(NameRank(a.s), NameRank(b.s)))
           [] a.tag = "Number" -> Some(IntCmp(a.n, b.n))

\* enum Predicate { HasEntry, Equals(Variant), Order(Ordering, Variant) }
HasEntry == [kind |-> "HasEntry", ord |-> "Equal", var |-> Bool(TRUE)]
Equals(v) == [kind |-> "Equals", ord |-> "Equal", var |-> v]
Order(o, v) == [kind |-> "Order", ord |-> o, var |-> v]

\* mutant: Equals compares the payloads and not the tags
Predicate_validate_untagged(self, variant) ==
    CASE self.kind = "HasEntry" -> TRUE
      [] self.kind = "Equals" -> /\ variant.b = self.var.b
                                 /\ variant.s = self.var.s
                                 /\ variant.n = self.var.n
      [] self.kind = "Order" ->
            LET pord == Variant_partial_cmp(variant, self.var)
            IN  unwrap(pord) = self.ord

Predicate_validate(self, variant) ==
    CASE self.kind = "HasEntry" -> TRUE
      [] self.kind = "Equals" -> variant = self.var
      [] self.kind = "Order" ->
            IF self.var.tag = "Number" /\ variant.tag = "Number"
            THEN IntCmp(variant.n, self.var.n) = self.ord
            ELSE LET pord == Variant_partial_cmp(variant, self.var)
                 IN  IF pord # None THEN unwrap(pord) = self.ord ELSE FALSE

\* an empty HashMap
EmptyMap == [k \in {} |-> 0]

\* the order in which a HashMap with key set S is iterated
Iter(S) ==
    LET all == IF hash_seed = 0 THEN NameOrder ELSE Reverse(NameOrder)
    IN  SelectSeq(all, LAMBDA k : k \in S)

RECURSIVE WorldState_validate_loop(_, _, _)
WorldState_validate_loop(self, other, names) ==
    IF names = <<>> THEN TRUE
    ELSE LET name == Head(names)
         IN  IF name \notin DOMAIN self THEN FALSE
             ELSE IF self[name] # other[name] THEN FALSE
             ELSE WorldState_validate_loop(self, other, Tail(names))

\* mutant: the entries of self are looked up in other
WorldState_validate_swapped(self, other) ==
    WorldState_validate_loop(other, self, Iter(DOMAIN self))

WorldState_validate(self, other) ==
    WorldState_validate_loop(self, other, Iter(DOMAIN other))

\* mutant: an entry of self is kept on a key collision
WorldState_append_left_biased(self, other) ==
    [name \in DOMAIN self \cup DOMAIN other |->
        IF name \in DOMAIN self THEN self[name] ELSE other[name]]

\* WorldState::append, as the value of self after the call
WorldState_append(self, other) ==
    [name \in DOMAIN self \cup DOMAIN other |->
        IF name \in DOMAIN other THEN other[name] ELSE self[name]]

WorldState_concat(self, other) == WorldState_append(self, other)

\* the receiver of concat after the call: concat appends to a clone
WorldState_concat_receiver(self, other) == self

WorldState_erase(self, key) == [name \in DOMAIN self \ {key} |-> self[name]]

RECURSIVE Requirements_validate_loop(_, _, _)
Requirements_validate_loop(self, world, keys) ==
    IF keys = <<>> THEN TRUE
    ELSE LET key == Head(keys)
         IN  IF key \notin DOMAIN world THEN FALSE
             ELSE IF ~Predicate_validate(self[key], world[key]) THEN FALSE
             ELSE Requirements_validate_loop(self, world, Tail(keys))

\* mutant: a key the world does not hold is skipped
Requirements_validate_skip_missing(self, world) ==
    \A key \in DOMAIN self \cap DOMAIN world :
        Predicate_validate(self[key], world[key])

Requirements_validate(self, world) ==
    Requirements_validate_loop(self, world, Iter(DOMAIN self))

RECURSIVE Requirements_consume_loop(_, _, _, _)
Requirements_consume_loop(self, world, reduced_world, keys) ==
    IF keys = <<>> THEN reduced_world
    ELSE LET key == Head(keys)
         IN  IF key \notin DOMAIN world
             THEN Requirements_consume_loop(self, world, reduced_world, Tail(keys))
             ELSE IF Predicate_validate(self[key], world[key])
             THEN Requirements_consume_loop(self, world,
                      WorldState_erase(reduced_world, key), Tail(keys))
             ELSE Requirements_consume_loop(self, world, reduced_world, Tail(keys))

\* mutant: every key of the requirements is erased, satisfied or not
Requirements_consume_all_keys(self, world) ==
    [name \in DOMAIN world \ DOMAIN self |-> world[name]]

Requirements_consume(self, world) ==
    Requirements_consume_loop(self, world, world, Iter(DOMAIN self))

RECURSIVE Requirements_unmet_loop(_, _, _, _)
Requirements_unmet_loop(self, world, reduced_req, keys) ==
    IF keys = <<>> THEN reduced_req
    ELSE LET key == Head(keys)
         IN  IF key \notin DOMAIN world
             THEN Requirements_unmet_loop(self, world, reduced_req, Tail(keys))
             ELSE IF Predicate_validate(self[key], world[key])
             THEN Requirements_unmet_loop(self, world,
                      [k \in DOMAIN reduced_req \ {key} |-> reduced_req[k]], Tail(keys))
             ELSE Requirements_unmet_loop(self, world, reduced_req, Tail(keys))

\* mutant: a key the world does not hold is purged as well
Requirements_unmet_drops_missing(self, world) ==
    [key \in {k \in DOMAIN self \cap DOMAIN world :
                 ~Predicate_validate(self[k], world[k])} |-> self[key]]

Requirements_unmet_requirements(self, world) ==
    Requirements_unmet_loop(self, world, self, Iter(DOMAIN self))

\* Requirements::append, as the value of self after the call: the entries of
\* self chained with those of req, collected into a map (the later entry wins)
Requirements_append(self, req) ==
    [key \in DOMAIN self \cup DOMAIN req |->
        IF key \in DOMAIN req THEN req[key] ELSE self[key]]

(***************************************************************************)
(* src/tasks.rs: Task, TaskData, TaskRegistry                              *)
(***************************************************************************)
\* enum Task { Primitive(String), Macro(Vec<Task>, String) }
Primitive(name) == [kind |-> "Primitive", name |-> name, tasks |-> <<>>]
Macro(tasks, name) == [kind |-> "Macro", name |-> name, tasks |-> tasks]

Task_name(self) == self.name

RECURSIVE Task_decompose(_)
Task_decompose(self) ==
    IF self.kind = "Primitive" THEN <<self.name>>
    ELSE IF self.tasks = <<>> THEN <<>>
    ELSE LET first == Task_decompose(Head(self.tasks))
             rest == Task_decompose(Macro(Tail(self.tasks), self.name))
         IN  first \o rest

\* SimpleTaskData::new(precon, postcon, cost): a descriptor with a static cost
SimpleTaskData(precon, postcon, cost) ==
    [precon |-> precon, postcon |-> postcon, custom |-> FALSE,
     cost |-> cost, cost_key |-> "", cost_when_set |-> cost]

\* a host-supplied TaskData (custom_task) whose cost depends on the world it
\* is evaluated against: cost_when_set when cost_key is true there, else cost
CustomTaskData(precon, postcon, cost, cost_key, cost_when_set) ==
    [precon |-> precon, postcon |-> postcon, custom |-> TRUE,
     cost |-> cost, cost_key |-> cost_key, cost_when_set |-> cost_when_set]

TaskData_preconditions(self) == self.precon
TaskData_postconditions(self) == self.postcon

TaskData_cost(self, world) ==
    IF self.custom /\ self.cost_key \in DOMAIN world
                   /\ world[self.cost_key] = Bool(TRUE)
    THEN self.cost_when_set
    ELSE self.cost

\* a map literal for the keys of ks, with the values vs in the same order
Map(ks, vs) == [k \in {ks[i] : i \in 1..Len(ks)} |->
                   vs[CHOOSE i \in 1..Len(ks) : ks[i] = k]]

\* The registered tasks: the tasks of tests::single_task_planning and
\* tests::multi_task_planning, and a custom task that undoes open_door, can
\* be repeated, and costs more when the door is open in the world its cost
\* is evaluated against.
Registry ==
    Map(<<"test", "goto_door", "open_door", "walk_thru_door", "close_door">>,
        << SimpleTaskData(Map(<<"hungry">>, <<Equals(Bool(TRUE))>>),
                          Map(<<"hungry">>, <<Bool(FALSE)>>), 1),
           SimpleTaskData(Map(<<"room", "near_door">>,
                              <<Equals(String("A")), Equals(Bool(FALSE))>>),
                          Map(<<"near_door">>, <<Bool(TRUE)>>), 1),
           SimpleTaskData(Map(<<"near_door", "door_open">>,
                              <<Equals(Bool(TRUE)), Equals(Bool(FALSE))>>),
                          Map(<<"door_open">>, <<Bool(TRUE)>>), 1),
           SimpleTaskData(Map(<<"room", "door_open", "near_door">>,
                              <<Equals(String("A")), Equals(Bool(TRUE)),
                                Equals(Bool(TRUE))>>),
                          Map(<<"room">>, <<String("B")>>), 1),
           CustomTaskData(Map(<<"door_open">>, <<HasEntry>>),
                          Map(<<"door_open">>, <<Bool(FALSE)>>),
                          1, "door_open", 2) >>)

TaskRegistry_get_named(self, name) ==
    IF name \in DOMAIN self THEN Some(self[name]) ELSE None

TaskRegistry_get_task(self, task) ==
    IF task.kind # "Primitive" THEN None
    ELSE TaskRegistry_get_named(self, task.name)

\* tasks.iter().map(|t| t.decompose()).rev().reduce(chain).unwrap_or_default()
RECURSIVE RevDecompose(_)
RevDecompose(tasks) ==
    IF tasks = <<>> THEN <<>>
    ELSE Task_decompose(Last(tasks)) \o RevDecompose(Front(tasks))

RECURSIVE precon_loop(_, _, _)
precon_loop(self, names, req) ==
    IF names = <<>> THEN Some(req)
    ELSE LET data == TaskRegistry_get_named(self, Head(names))
         IN  IF data = None THEN None
             ELSE precon_loop(self, Tail(names),
                      Requirements_append(
                          Requirements_unmet_requirements(
                              req, TaskData_postconditions(unwrap(data))),
                          TaskData_preconditions(unwrap(data))))

TaskRegistry_precon(self, task) ==
    IF task.kind = "Primitive"
    THEN LET data == TaskRegistry_get_named(self, task.name)
         IN  IF data # None THEN Some(TaskData_preconditions(unwrap(data))) ELSE None
    ELSE precon_loop(self, RevDecompose(task.tasks), EmptyMap)

RECURSIVE postcon_loop(_, _, _)
postcon_loop(self, names, context) ==
    IF names = <<>> THEN Some(context)
    ELSE LET data == TaskRegistry_get_named(self, Head(names))
         IN  IF data = None THEN None
             ELSE postcon_loop(self, Tail(names),
                      WorldState_append(
                          Requirements_consume(
                              TaskData_preconditions(unwrap(data)), context),
                          TaskData_postconditions(unwrap(data))))

TaskRegistry_postcon(self, task) ==
    IF task.kind = "Primitive"
    THEN LET data == TaskRegistry_get_named(self, task.name)
         IN  IF data # None THEN Some(TaskData_postconditions(unwrap(data))) ELSE None
    ELSE postcon_loop(self, RevDecompose(task.tasks), EmptyMap)

(***************************************************************************)
(* src/planning/goals.rs: Goal                                             *)
(***************************************************************************)
Goal_new(name, requires, utility) ==
    [name |-> name, requires |-> requires, utility |-> utility]

(***************************************************************************)
(* src/planning/tree.rs and src/planning/plan_data.rs                      *)
(***************************************************************************)
\* struct Node<T> { value, parent } with T = PlanNode { task, world, cost, depth }
Node(task, world, cost, depth, parent) ==
    [value |-> [task |-> task, world |-> world, cost |-> cost, depth |-> depth],
     parent |-> parent]

\* mutant: the comparison is turned round, the goals end up descending
RECURSIVE sort_by_utility_descending(_)
sort_by_utility_descending(gs) ==
    IF gs = <<>> THEN <<>>
    ELSE LET sorted == sort_by_utility_descending(Front(gs))
             g == Last(gs)
             keep == SelectSeq(sorted, LAMBDA a : a.utility >= g.utility)
             after == SelectSeq(sorted, LAMBDA a : a.utility < g.utility)
         IN  keep \o <<g>> \o after

\* goals.sort_by(|a, b| a.utility.total_cmp(&b.utility)): a stable sort
RECURSIVE sort_by_utility(_)
sort_by_utility(gs) ==
    IF gs = <<>> THEN <<>>
    ELSE LET sorted == sort_by_utility(Front(gs))
             g == Last(gs)
             keep == SelectSeq(sorted, LAMBDA a : a.utility <= g.utility)
             after == SelectSeq(sorted, LAMBDA a : a.utility > g.utility)
         IN  keep \o <<g>> \o after

\* mutant: the precondition test is left out
possible_tasks_unchecked(world, task_registry) ==
    SelectSeq(available_tasks,
              LAMBDA task : TaskRegistry_precon(task_registry, task) # None)

\* mutant: the tasks are visited in the order of a hashed collection
possible_tasks_hash_order(world, task_registry) ==
    SelectSeq(IF hash_seed = 0 THEN available_tasks ELSE Reverse(available_tasks),
              LAMBDA task :
                  LET precon == TaskRegistry_precon(task_registry, task)
                  IN  IF precon = None THEN FALSE
                      ELSE Requirements_validate(unwrap(precon), world))

\* mutant: a failed lookup ends the enumeration (break for continue)
possible_tasks_break_on_unknown(world, task_registry) ==
    LET known(i) == \A j \in 1..i :
                        TaskRegistry_precon(task_registry, available_tasks[j]) # None
        upto == SelectSeq([i \in 1..Len(available_tasks) |-> i], known)
    IN  SelectSeq([i \in 1..Len(upto) |-> available_tasks[i]],
                  LAMBDA task :
                      Requirements_validate(
                          unwrap(TaskRegistry_precon(task_registry, task)), world))

possible_tasks(world, task_registry) ==
    SelectSeq(available_tasks,
              LAMBDA task :
                  LET precon == TaskRegistry_precon(task_registry, task)
                  IN  IF precon = None THEN FALSE
                      ELSE Requirements_validate(unwrap(precon), world))

\* mutant: seed nodes are added to a frontier that still holds nodes
try_seed_active_nodes_always(registry, world) ==
    LET seeds == SelectSeq(possible_tasks(world, registry),
                     LAMBDA s : TaskRegistry_get_task(registry, s) # None)
    IN  active_nodes \o
        [i \in 1..Len(seeds) |->
            LET data == unwrap(TaskRegistry_get_task(registry, seeds[i]))
            IN  Node(Some(seeds[i]),
                     WorldState_concat(world, TaskData_postconditions(data)),
                     TaskData_cost(data, world),
                     0, None)]

\* mutant: every available task is seeded, applicable or not
try_seed_active_nodes_unchecked(registry, world) ==
    IF active_nodes # <<>> THEN active_nodes
    ELSE LET seeds == SelectSeq(available_tasks,
                          LAMBDA s : TaskRegistry_get_task(registry, s) # None)
         IN  active_nodes \o
             [i \in 1..Len(seeds) |->
                 LET data == unwrap(TaskRegistry_get_task(registry, seeds[i]))
                 IN  Node(Some(seeds[i]),
                          WorldState_concat(world, TaskData_postconditions(data)),
                          TaskData_cost(data, world),
                          0, None)]

\* the value of active_nodes after try_seed_active_nodes
try_seed_active_nodes(registry, world) ==
    IF active_nodes # <<>> THEN active_nodes
    ELSE LET seeds == SelectSeq(possible_tasks(world, registry),
                          LAMBDA s : TaskRegistry_get_task(registry, s) # None)
         IN  active_nodes \o
             [i \in 1..Len(seeds) |->
                 LET data == unwrap(TaskRegistry_get_task(registry, seeds[i]))
                 IN  Node(Some(seeds[i]),
                          WorldState_concat(world, TaskData_postconditions(data)),
                          TaskData_cost(data, world),
                          0, None)]

\* mutant: the parent's cost is not carried over
make_node_own_cost(parent, task, registry) ==
    LET data == TaskRegistry_get_task(registry, task)
    IN  IF data = None THEN None
        ELSE LET virtual_world ==
                     WorldState_concat(parent.value.world,
                                       TaskData_postconditions(unwrap(data)))
             IN  Some(Node(Some(task),
                           virtual_world,
                           TaskData_cost(unwrap(data), virtual_world),
                           parent.value.depth + 1,
                           Some(parent)))

\* mutant: the child is linked to its parent's parent
make_node_skips_parent(parent, task, registry) ==
    LET data == TaskRegistry_get_task(registry, task)
    IN  IF data = None THEN None
        ELSE LET virtual_world ==
                     WorldState_concat(parent.value.world,
                                       TaskData_postconditions(unwrap(data)))
             IN  Some(Node(Some(task),
                           virtual_world,
                           parent.value.cost + TaskData_cost(unwrap(data), virtual_world),
                           parent.value.depth + 1,
                           parent.parent))

make_node(parent, task, registry) ==
    LET data == TaskRegistry_get_task(registry, task)
    IN  IF data = None THEN None
        ELSE LET virtual_world ==
                     WorldState_concat(parent.value.world,
                                       TaskData_postconditions(unwrap(data)))
             IN  Some(Node(Some(task),
                           virtual_world,
                           parent.value.cost + TaskData_cost(unwrap(data), virtual_world),
                           parent.value.depth + 1,
                           Some(parent)))

NodeTaskName(node) ==
    IF node.value.task # None THEN Task_name(unwrap(node.value.task)) ELSE "0"

\* mutant: the guard never trips
has_recursion_never(node) == FALSE

has_recursion(node) ==
    IF node.parent = None THEN FALSE
    ELSE LET parent == unwrap(node.parent)
         IN  IF parent.parent = None THEN FALSE
             ELSE LET parent2 == unwrap(parent.parent)
                  IN  IF parent2.parent = None THEN FALSE
                      ELSE LET parent3 == unwrap(parent2.parent)
                               t0 == NodeTaskName(node)
                               t1 == NodeTaskName(parent)
                               t2 == NodeTaskName(parent2)
                               t4 == NodeTaskName(parent3)
                           IN  t0 = t2 /\ t1 = t4

RECURSIVE unravel_loop(_, _)
unravel_loop(curr, sequence) ==
    IF curr.value.task = None THEN unravel_loop(curr, sequence)
    ELSE LET pushed == Append(sequence, unwrap(curr.value.task))
         IN  IF curr.parent = None THEN pushed
             ELSE unravel_loop(unwrap(curr.parent), pushed)

\* mutant: the sequence is turned into execution order before it is stored
unravel_plan_root_first(leaf) ==
    [tasks |-> Reverse(unravel_loop(leaf, <<>>)), cost |-> leaf.value.cost]

\* mutant: the walk starts at the leaf's parent
unravel_plan_above_leaf(leaf) ==
    [tasks |-> IF leaf.parent = None THEN <<>>
               ELSE unravel_loop(unwrap(leaf.parent), <<>>),
     cost |-> leaf.value.cost]

unravel_plan(leaf) ==
    [tasks |-> unravel_loop(leaf, <<>>), cost |-> leaf.value.cost]

\* mutant: a node is cut off only when it is deeper than the limit
depth_limit_reached_beyond(depth, max_node_depth_) ==
    IF max_node_depth_ # None THEN depth > unwrap(max_node_depth_) ELSE FALSE

\* depth >= max_node_depth.unwrap_or(u32::MAX); no node is u32::MAX deep
depth_limit_reached(depth, max_node_depth_) ==
    IF max_node_depth_ # None THEN depth >= unwrap(max_node_depth_) ELSE FALSE

\* the value of <<active_nodes, valid_nodes>> after generate_single
\* mutant: a node that satisfies the goal is accepted and expanded as well
generate_single_expands_leaves(goal_, task_registry, max_node_depth_) ==
    IF active_nodes = <<>>
    THEN [active_nodes |-> active_nodes, valid_nodes |-> valid_nodes]
    ELSE LET node == Head(active_nodes)
             popped == Tail(active_nodes)
             tasks == SelectSeq(possible_tasks(node.value.world, task_registry),
                          LAMBDA t : make_node(node, t, task_registry) # None)
             new_nodes == [i \in 1..Len(tasks) |->
                              unwrap(make_node(node, tasks[i], task_registry))]
         IN  IF \/ depth_limit_reached(node.value.depth, max_node_depth_)
                \/ has_recursion(node)
             THEN [active_nodes |-> popped,
                   valid_nodes |->
                       IF Requirements_validate(goal_.requires, node.value.world)
                       THEN Append(valid_nodes, node) ELSE valid_nodes]
             ELSE [active_nodes |-> Reverse(new_nodes) \o popped,
                   valid_nodes |->
                       IF Requirements_validate(goal_.requires, node.value.world)
                       THEN Append(valid_nodes, node) ELSE valid_nodes]

generate_single(goal_, task_registry, max_node_depth_) ==
    IF active_nodes = <<>>
    THEN [active_nodes |-> active_nodes, valid_nodes |-> valid_nodes]
    ELSE LET node == Head(active_nodes)
             popped == Tail(active_nodes)
         IN  IF Requirements_validate(goal_.requires, node.value.world)
             THEN [active_nodes |-> popped, valid_nodes |-> Append(valid_nodes, node)]
             ELSE IF \/ depth_limit_reached(node.value.depth, max_node_depth_)
                     \/ has_recursion(node)
             THEN [active_nodes |-> popped, valid_nodes |-> valid_nodes]
             ELSE LET tasks == SelectSeq(possible_tasks(node.value.world, task_registry),
                                   LAMBDA t : make_node(node, t, task_registry) # None)
                      new_nodes == [i \in 1..Len(tasks) |->
                                       unwrap(make_node(node, tasks[i], task_registry))]
                  IN  [active_nodes |-> Reverse(new_nodes) \o popped,
                       valid_nodes |-> valid_nodes]

\* HashMap::insert
Insert(map, key, value) ==
    [k \in DOMAIN map \cup {key} |-> IF k = key THEN value ELSE map[k]]

\* mutant: the comparison is inverted, a cheaper plan is discarded
try_emit_single_inverted(goal_) ==
    IF valid_nodes = <<>> THEN [valid_nodes |-> valid_nodes, plans |-> plans]
    ELSE LET valid == Last(valid_nodes)
             plan == unravel_plan(valid)
         IN  IF goal_.name \in DOMAIN plans /\ plan.cost < plans[goal_.name].cost
             THEN [valid_nodes |-> Front(valid_nodes), plans |-> plans]
             ELSE [valid_nodes |-> Front(valid_nodes),
                   plans |-> Insert(plans, goal_.name, plan)]

\* mutant: the new plan is stored without a comparison
try_emit_single_unconditional(goal_) ==
    IF valid_nodes = <<>> THEN [valid_nodes |-> valid_nodes, plans |-> plans]
    ELSE [valid_nodes |-> Front(valid_nodes),
          plans |-> Insert(plans, goal_.name, unravel_plan(Last(valid_nodes)))]

\* the value of <<valid_nodes, plans>> after try_emit_single
try_emit_single(goal_) ==
    IF valid_nodes = <<>> THEN [valid_nodes |-> valid_nodes, plans |-> plans]
    ELSE LET valid == Last(valid_nodes)
             plan == unravel_plan(valid)
         IN  IF goal_.name \in DOMAIN plans /\ plan.cost > plans[goal_.name].cost
             THEN [valid_nodes |-> Front(valid_nodes), plans |-> plans]
             ELSE [valid_nodes |-> Front(valid_nodes),
                   plans |-> Insert(plans, goal_.name, plan)]

(***************************************************************************)
(* The inputs: what new_initialized and the generate calls are handed.     *)
(***************************************************************************)
TaskNames == DOMAIN Registry

\* the available-task lists: up to MaxTasks distinct registered primitives
TaskLists ==
    UNION { { [i \in 1..n |-> Primitive(f[i])] :
                f \in { g \in [1..n -> TaskNames] :
                          \A i, j \in 1..n : i # j => g[i] # g[j] } } :
            n \in 0..MaxTasks }

\* the goals of the two planning tests, and a goal with two routes to it
GoalChoices ==
    { Goal_new("Be Not Hungry", Map(<<"hungry">>, <<Equals(Bool(FALSE))>>), 1),
      Goal_new("Be in room B", Map(<<"room">>, <<Equals(String("B"))>>), 1),
      Goal_new("Door open", Map(<<"door_open">>, <<Equals(Bool(TRUE))>>), 2) }

\* the starting worlds of the two planning tests, and one in which the door
\* is open and the agent is hungry
WorldChoices ==
    { Map(<<"hungry">>, <<Bool(TRUE)>>),
      Map(<<"room", "near_door", "door_open">>,
          <<String("A"), Bool(FALSE), Bool(FALSE)>>),
      Map(<<"room", "near_door", "door_open", "hungry">>,
          <<String("A"), Bool(TRUE), Bool(TRUE), Bool(TRUE)>>) }

\* the depth limits: seeds only, and the deepest search of the model
DepthLimits == {Some(0), Some(MaxDepth)}

HashSeeds == {0, 1}

\* nothing beside the planner is in use
NotCalled == call = None /\ ret = None /\ visited = <<>>

\* the entity has no plan and runs no task
NoAgent ==
    /\ agent_plan = None
    /\ agent_state = None
    /\ agent_current_task = None
    /\ agent_components = {}
    /\ activations = <<>>

\* no name has been interned
NoInterning ==
    /\ UNIQUE_NAME_REGISTRY = EmptyMap
    /\ registry_lock = None
    /\ threads = <<>>
    /\ arcs = <<>>
    /\ handles = {}

\* HtnAgent::default(): no goal has been added
NoGoalsProvided == agent_goals = <<>>

BesidePlannerInit == NotCalled /\ NoAgent /\ NoInterning /\ NoGoalsProvided

\* TimeSlicedTreeGen::new_initialized(tasks, goals)
Init ==
    /\ BesidePlannerInit
    /\ available_tasks \in TaskLists
    /\ \E g \in GoalChoices : goals = sort_by_utility(<<g>>)
    /\ active_nodes = <<>>
    /\ valid_nodes = <<>>
    /\ plans = EmptyMap
    /\ current_world \in WorldChoices
    /\ max_node_depth \in DepthLimits
    /\ hash_seed \in HashSeeds
    /\ pc = "idle"
    /\ goal = Goal_new("", EmptyMap, 0)
    /\ duration = None
    /\ passes = 0
    /\ modes = {}
    /\ found = {}
    /\ first_plans = None
    /\ seed_world = None

\* mutant: the call goes on without a goal
Enter_without_goal_test(name, d) ==
    /\ UNCHANGED beside_planner
    /\ pc = "idle"
    /\ active_nodes = <<>> => passes < MaxPasses
    /\ goal' = IF goals = <<>> THEN goal ELSE Last(goals)
    /\ active_nodes' = try_seed_active_nodes(Registry, current_world)
    /\ duration' = d
    /\ pc' = "generate"
    /\ passes' = IF active_nodes = <<>> THEN passes + 1 ELSE passes
    /\ modes' = IF active_nodes = <<>> THEN {name} ELSE modes \cup {name}
    /\ UNCHANGED <<valid_nodes, goals, plans, available_tasks, current_world,
                   max_node_depth, hash_seed, found, first_plans>>
    /\ seed_world' = IF active_nodes = <<>> THEN Some(current_world)
                     ELSE seed_world

\* entry of generate_to_completion / generate_for_duration up to the loop;
\* a call that finds no goal returns at once, which the history records
Enter(name, d) ==
    /\ UNCHANGED beside_planner
    /\ pc = "idle"
    /\ IF goals = <<>>
       THEN /\ modes' = modes \cup {"returned early"}
            /\ UNCHANGED <<active_nodes, valid_nodes, goals, plans, available_tasks,
                           current_world, max_node_depth, hash_seed, pc, goal,
                           duration, passes, found, first_plans,
                           seed_world>>
       ELSE /\ active_nodes = <<>> => passes < MaxPasses
            /\ goal' = Last(goals)
            /\ active_nodes' = try_seed_active_nodes(Registry, current_world)
            /\ duration' = d
            /\ pc' = "generate"
            /\ passes' = IF active_nodes = <<>> THEN passes + 1 ELSE passes
            /\ modes' = IF active_nodes = <<>> THEN {name} ELSE modes \cup {name}
            /\ UNCHANGED <<valid_nodes, goals, plans, available_tasks, current_world,
                           max_node_depth, hash_seed, found, first_plans>>
            /\ seed_world' = IF active_nodes = <<>> THEN Some(current_world)
                             ELSE seed_world

GenerateToCompletion == Enter("generate_to_completion", None)

\* the host's frame_processing_limit is set: the timer can run out
GenerateForDuration == Enter("generate_for_duration", Some(1))

\* the call of generate_single in the loop of either generate function
GenerateSingle ==
    /\ UNCHANGED beside_planner
    /\ pc = "generate"
    /\ LET r == generate_single(goal, Registry, max_node_depth)
       IN  /\ active_nodes' = r.active_nodes
           /\ valid_nodes' = r.valid_nodes
           /\ found' = IF Len(r.valid_nodes) > Len(valid_nodes)
                       THEN found \cup {Last(r.valid_nodes).value.cost}
                       ELSE found
    /\ pc' = "emit"
    /\ UNCHANGED <<goals, plans, available_tasks, current_world, max_node_depth,
                   hash_seed, goal, duration, passes, modes, first_plans,
                   seed_world>>

\* mutant: the emptiness test is inverted
loop_breaks_inverted(elapsed) == elapsed \/ active_nodes # <<>>

\* the exit tests at the end of an iteration of either loop
loop_breaks(elapsed) == elapsed \/ active_nodes = <<>>

\* mutant: the timer is tested before try_emit_single, so that a leaf
\* accepted in the iteration the timer runs out in is left pending
TryEmitSingle_timer_first ==
    /\ UNCHANGED beside_planner
    /\ pc = "emit"
    /\ \E elapsed \in IF duration # None THEN BOOLEAN ELSE {FALSE} :
          IF elapsed
          THEN /\ pc' = "idle" /\ duration' = None
               /\ UNCHANGED <<valid_nodes, plans>>
          ELSE /\ LET r == try_emit_single(goal)
                  IN  /\ valid_nodes' = r.valid_nodes
                      /\ plans' = r.plans
               /\ IF active_nodes = <<>>
                  THEN pc' = "idle" /\ duration' = None
                  ELSE pc' = "generate" /\ duration' = duration
    /\ UNCHANGED <<active_nodes, goals, available_tasks, current_world, max_node_depth,
                   hash_seed, goal, passes, modes, found, first_plans,
                   seed_world>>

\* the call of try_emit_single in the loop and the loop's exit tests; the
\* timer of generate_for_duration may or may not have run out
TryEmitSingle ==
    /\ UNCHANGED beside_planner
    /\ pc = "emit"
    /\ LET r == try_emit_single(goal)
       IN  /\ valid_nodes' = r.valid_nodes
           /\ plans' = r.plans
    /\ \E elapsed \in IF duration # None THEN BOOLEAN ELSE {FALSE} :
          IF loop_breaks(elapsed)
          THEN pc' = "idle" /\ duration' = None
          ELSE pc' = "generate" /\ duration' = duration
    /\ UNCHANGED <<active_nodes, goals, available_tasks, current_world, max_node_depth,
                   hash_seed, goal, passes, modes, found, first_plans,
                   seed_world>>

\* the host drops the planner after one generate_to_completion call and
\* builds a fresh one from the same tasks and goals with new_initialized
NewPlanner ==
    /\ UNCHANGED beside_planner
    /\ pc = "idle"
    /\ active_nodes = <<>>
    /\ passes = 1
    /\ passes < MaxPasses
    /\ modes = {"generate_to_completion"}
    /\ first_plans = None
    /\ first_plans' = Some(plans)
    /\ seed_world' = None
    /\ active_nodes' = <<>>
    /\ valid_nodes' = <<>>
    /\ goals' = sort_by_utility(goals)
    /\ plans' = EmptyMap
    /\ hash_seed' = 1 - hash_seed
    /\ modes' = {}
    /\ found' = {}
    /\ UNCHANGED <<available_tasks, current_world, max_node_depth, pc, goal,
                   duration, passes>>

Next ==
    \/ GenerateToCompletion
    \/ GenerateForDuration
    \/ GenerateSingle
    \/ TryEmitSingle
    \/ NewPlanner

Spec == Init /\ [][Next]_vars

\* One generate_to_completion call on a fresh planner, with the deepest limit
\* and task lists of up to MaxFairTasks tasks.  The loop runs on the caller's
\* thread until its exit test breaks it, so a loop that has started keeps
\* running.
InitFair ==
    /\ Init
    /\ Len(available_tasks) <= MaxFairTasks
    /\ max_node_depth = Some(MaxDepth)
    /\ hash_seed = 0

GenerateToCompletionOnce == passes = 0 /\ GenerateToCompletion

NextFair ==
    \/ GenerateToCompletionOnce
    \/ GenerateSingle
    \/ TryEmitSingle

FairSpec ==
    /\ InitFair
    /\ [][NextFair]_vars
    /\ WF_vars(GenerateSingle)
    /\ WF_vars(TryEmitSingle)

\* The planner with a goal list of any length.  The host builds it with
\* new_initialized from goals in any order, calls the generate functions, and
\* removes the pursued goal from the public goal list when it is done with it.
GoalLists ==
    UNION { { gs \in [1..n -> GoalChoices] :
                \A i, j \in 1..n : i # j => gs[i] # gs[j] } : n \in 0..MaxGoals }

InitGoals ==
    /\ BesidePlannerInit
    /\ available_tasks \in {l \in TaskLists : Len(l) <= MaxGoalTasks}
    /\ \E gs \in GoalLists : goals = sort_by_utility(gs)
    /\ active_nodes = <<>>
    /\ valid_nodes = <<>>
    /\ plans = EmptyMap
    /\ current_world \in WorldChoices
    /\ max_node_depth = Some(MaxGoalDepth)
    /\ hash_seed = 0
    /\ pc = "idle"
    /\ goal = Goal_new("", EmptyMap, 0)
    /\ duration = None
    /\ passes = 0
    /\ modes = {}
    /\ found = {}
    /\ first_plans = None
    /\ seed_world = None

\* the host pops the goal it was pursuing: planner.goals.pop()
PopGoal ==
    /\ UNCHANGED beside_planner
    /\ pc = "idle"
    /\ goals # <<>>
    /\ goals' = Front(goals)
    /\ UNCHANGED <<active_nodes, valid_nodes, plans, available_tasks, current_world,
                   max_node_depth, hash_seed, pc, goal, duration, passes, modes,
                   found, first_plans,
                   seed_world>>

NextGoals ==
    \/ GenerateToCompletion
    \/ GenerateForDuration
    \/ GenerateSingle
    \/ TryEmitSingle
    \/ PopGoal

GoalSpec == InitGoals /\ [][NextGoals]_vars

\* The planner handed an available-task list that names a task the registry
\* does not hold.  After one generate_to_completion call the host builds a
\* fresh planner from the same list without that task and searches again.
UnknownTask == Primitive("unknown")

Registered(task) == TaskRegistry_precon(Registry, task) # None

LookupLists ==
    UNION { { [i \in 1..n |-> Primitive(f[i])] :
                f \in { g \in [1..n -> TaskNames \cup {UnknownTask.name}] :
                          /\ \A i, j \in 1..n : i # j => g[i] # g[j]
                          /\ \E i \in 1..n : g[i] = UnknownTask.name } } :
            n \in 1..MaxLookupTasks }

InitLookup ==
    /\ BesidePlannerInit
    /\ available_tasks \in LookupLists
    /\ \E g \in GoalChoices : goals = sort_by_utility(<<g>>)
    /\ active_nodes = <<>>
    /\ valid_nodes = <<>>
    /\ plans = EmptyMap
    /\ current_world \in WorldChoices
    /\ max_node_depth = Some(MaxDepth)
    /\ hash_seed = 0
    /\ pc = "idle"
    /\ goal = Goal_new("", EmptyMap, 0)
    /\ duration = None
    /\ passes = 0
    /\ modes = {}
    /\ found = {}
    /\ first_plans = None
    /\ seed_world = None

NewPlannerWithoutUnknown ==
    /\ UNCHANGED beside_planner
    /\ pc = "idle"
    /\ active_nodes = <<>>
    /\ passes = 1
    /\ passes < MaxPasses
    /\ first_plans = None
    /\ first_plans' = Some(plans)
    /\ seed_world' = None
    /\ available_tasks' = SelectSeq(available_tasks, Registered)
    /\ active_nodes' = <<>>
    /\ valid_nodes' = <<>>
    /\ goals' = sort_by_utility(goals)
    /\ plans' = EmptyMap
    /\ modes' = {}
    /\ found' = {}
    /\ UNCHANGED <<current_world, max_node_depth, hash_seed, pc, goal, duration,
                   passes>>

NextLookup ==
    \/ GenerateToCompletion
    \/ GenerateSingle
    \/ TryEmitSingle
    \/ NewPlannerWithoutUnknown

LookupSpec == InitLookup /\ [][NextLookup]_vars

\* the planner is not in use
PlannerUnused ==
    /\ active_nodes = <<>>
    /\ valid_nodes = <<>>
    /\ goals = <<>>
    /\ plans = EmptyMap
    /\ available_tasks = <<>>
    /\ current_world = EmptyMap
    /\ max_node_depth = None
    /\ pc = "idle"
    /\ goal = Goal_new("", EmptyMap, 0)
    /\ duration = None
    /\ passes = 0
    /\ modes = {}
    /\ found = {}
    /\ first_plans = None
    /\ seed_world = None

\* TaskRegistry::precon and TaskRegistry::postcon called on a composite task.
\* The sub-tasks are registered primitives and two composites of primitives.
InnerMacros ==
    { Macro(<<Primitive("goto_door"), Primitive("open_door")>>, "reach_door"),
      Macro(<<Primitive("open_door"), Primitive("walk_thru_door")>>, "leave_room") }

SubTaskChoices == {Primitive(n) : n \in TaskNames} \cup InnerMacros

MacroTasks ==
    UNION { { Macro(ts, "macro") : ts \in [1..n -> SubTaskChoices] } :
            n \in 0..MaxSubTasks }

\* the worlds the conditions are evaluated against: the starting worlds of
\* the planning tests and every world that sets all four facts
CatalogWorlds ==
    WorldChoices \cup
    { Map(<<"room", "near_door", "door_open", "hungry">>,
          <<String(r), Bool(n), Bool(d), Bool(h)>>) :
        r \in {"A", "B"}, n \in BOOLEAN, d \in BOOLEAN, h \in BOOLEAN }

InitCatalog ==
    /\ PlannerUnused
    /\ NoAgent
    /\ NoGoalsProvided
    /\ NoInterning
    /\ hash_seed = 0
    /\ call \in [op : {""}, task : MacroTasks, world : CatalogWorlds]
    /\ ret = None
    /\ visited = <<>>

\* the names the loop of precon / postcon visits: those of its iterator up
\* to the first one the registry does not hold
RECURSIVE visited_names(_, _)
visited_names(self, names) ==
    IF names = <<>> THEN <<>>
    ELSE IF TaskRegistry_get_named(self, Head(names)) = None THEN <<Head(names)>>
    ELSE <<Head(names)>> \o visited_names(self, Tail(names))

Precon ==
    /\ call.op = ""
    /\ call' = [call EXCEPT !.op = "precon"]
    /\ ret' = TaskRegistry_precon(Registry, call.task)
    /\ visited' = IF call.task.kind = "Macro"
                  THEN visited_names(Registry, RevDecompose(call.task.tasks))
                  ELSE <<>>
    /\ UNCHANGED <<planner_vars, beside_call>>

Postcon ==
    /\ call.op = ""
    /\ call' = [call EXCEPT !.op = "postcon"]
    /\ ret' = TaskRegistry_postcon(Registry, call.task)
    /\ visited' = IF call.task.kind = "Macro"
                  THEN visited_names(Registry, RevDecompose(call.task.tasks))
                  ELSE <<>>
    /\ UNCHANGED <<planner_vars, beside_call>>

NextCatalog ==
    \/ Precon
    \/ Postcon

CatalogSpec == InitCatalog /\ [][NextCatalog]_vars

\* A host that lists composite tasks beside primitive ones, and whose world
\* changes between the generate calls it makes on one planner.
CompositeTaskChoices == {Primitive(n) : n \in TaskNames} \cup InnerMacros

CompositeTaskLists ==
    UNION { { ts \in [1..n -> CompositeTaskChoices] :
                \A i, j \in 1..n : i # j => ts[i] # ts[j] } : n \in 0..MaxGoalTasks }

InitHost ==
    /\ BesidePlannerInit
    /\ available_tasks \in CompositeTaskLists
    /\ \E g \in GoalChoices : goals = sort_by_utility(<<g>>)
    /\ active_nodes = <<>>
    /\ valid_nodes = <<>>
    /\ plans = EmptyMap
    /\ current_world \in WorldChoices
    /\ max_node_depth = Some(MaxGoalDepth)
    /\ hash_seed = 0
    /\ pc = "idle"
    /\ goal = Goal_new("", EmptyMap, 0)
    /\ duration = None
    /\ passes = 0
    /\ modes = {}
    /\ found = {}
    /\ first_plans = None
    /\ seed_world = None

\* between two calls the agent's world becomes another one; the next call
\* is given the new world
WorldChanges ==
    /\ UNCHANGED beside_planner
    /\ pc = "idle"
    /\ modes # {}
    /\ \E w \in WorldChoices \ {current_world} : current_world' = w
    /\ UNCHANGED <<active_nodes, valid_nodes, goals, plans, available_tasks,
                   max_node_depth, hash_seed, pc, goal, duration, passes, modes,
                   found, first_plans,
                   seed_world>>

NextHost ==
    \/ GenerateToCompletion
    \/ GenerateForDuration
    \/ GenerateSingle
    \/ TryEmitSingle
    \/ WorldChanges

HostSpec == InitHost /\ [][NextHost]_vars

\* One planner, one goal, one starting world, searched under each depth
\* limit up to MaxSearchDepth by generate calls of either kind.
SearchDepthLimits == {Some(d) : d \in 0..MaxSearchDepth}

InitSearch ==
    /\ BesidePlannerInit
    /\ available_tasks \in {l \in TaskLists : Len(l) <= MaxGoalTasks}
    /\ \E g \in GoalChoices : goals = sort_by_utility(<<g>>)
    /\ active_nodes = <<>>
    /\ valid_nodes = <<>>
    /\ plans = EmptyMap
    /\ current_world \in WorldChoices
    /\ max_node_depth \in SearchDepthLimits
    /\ hash_seed = 0
    /\ pc = "idle"
    /\ goal = Goal_new("", EmptyMap, 0)
    /\ duration = None
    /\ passes = 0
    /\ modes = {}
    /\ found = {}
    /\ first_plans = None
    /\ seed_world = None

NextSearch ==
    \/ GenerateToCompletion
    \/ GenerateForDuration
    \/ GenerateSingle
    \/ TryEmitSingle

SearchSpec == InitSearch /\ [][NextSearch]_vars

\* WorldState::validate and WorldState::concat called on two worlds of up to
\* MaxWorldKeys keys, with values of the three kinds of Variant.
WorldKeys == {<<"hungry", "room", "door_open", "near_door">>[i] :
                 i \in 1..Min({MaxWorldKeys, 4})}

VariantChoices == {Bool(TRUE), Bool(FALSE), String("A"), Number(1)}

Worlds == UNION { [S -> VariantChoices] : S \in SUBSET WorldKeys }

InitWorld ==
    /\ PlannerUnused
    /\ NoAgent
    /\ NoGoalsProvided
    /\ NoInterning
    /\ hash_seed \in HashSeeds
    /\ call \in [op : {""}, self : Worlds, other : Worlds]
    /\ ret = None
    /\ visited = <<>>

Validate ==
    /\ call.op = ""
    /\ call' = [call EXCEPT !.op = "validate"]
    /\ ret' = Some(WorldState_validate(call.self, call.other))
    /\ UNCHANGED <<planner_vars, beside_call, visited>>

Concat ==
    /\ call.op = ""
    /\ call' = [call EXCEPT !.op = "concat",
                            !.self = WorldState_concat_receiver(call.self, call.other)]
    /\ ret' = Some(WorldState_concat(call.self, call.other))
    /\ UNCHANGED <<planner_vars, beside_call, visited>>

NextWorld ==
    \/ Validate
    \/ Concat

WorldSpec == InitWorld /\ [][NextWorld]_vars

\* Requirements::validate, consume and unmet_requirements called on
\* requirements and a world of up to MaxWorldKeys keys each.
PredicateChoices ==
    {HasEntry, Equals(Bool(TRUE)), Equals(String("A")),
     Order("Greater", Number(0)), Order("Less", Number(1))}

RequirementsChoices == UNION { [S -> PredicateChoices] : S \in SUBSET WorldKeys }

InitRequirements ==
    /\ PlannerUnused
    /\ NoAgent
    /\ NoGoalsProvided
    /\ NoInterning
    /\ hash_seed \in HashSeeds
    /\ call \in [op : {""}, self : RequirementsChoices, world : Worlds]
    /\ ret = None
    /\ visited = <<>>

RequirementsValidate ==
    /\ call.op = ""
    /\ call' = [call EXCEPT !.op = "validate"]
    /\ ret' = Some(Requirements_validate(call.self, call.world))
    /\ UNCHANGED <<planner_vars, beside_call, visited>>

Consume ==
    /\ call.op = ""
    /\ call' = [call EXCEPT !.op = "consume"]
    /\ ret' = Some(Requirements_consume(call.self, call.world))
    /\ UNCHANGED <<planner_vars, beside_call, visited>>

UnmetRequirements ==
    /\ call.op = ""
    /\ call' = [call EXCEPT !.op = "unmet_requirements"]
    /\ ret' = Some(Requirements_unmet_requirements(call.self, call.world))
    /\ UNCHANGED <<planner_vars, beside_call, visited>>

NextRequirements ==
    \/ RequirementsValidate
    \/ Consume
    \/ UnmetRequirements

RequirementsSpec == InitRequirements /\ [][NextRequirements]_vars

\* Predicate::validate called on a predicate and a value, and
\* WorldState::validate called on two worlds that hold at most the key
\* "hungry"; the values are two of each kind of Variant.
Orderings == {"Less", "Equal", "Greater"}

Variants == {Bool(FALSE), Bool(TRUE), String("A"), String("B"), Number(0), Number(1)}

Predicates ==
    {HasEntry} \cup {Equals(v) : v \in Variants}
               \cup {Order(o, v) : o \in Orderings, v \in Variants}

SingleFactWorlds == {EmptyMap} \cup {Map(<<"hungry">>, <<v>>) : v \in Variants}

InitVariant ==
    /\ PlannerUnused
    /\ NoAgent
    /\ NoGoalsProvided
    /\ NoInterning
    /\ hash_seed = 0
    /\ call \in [op : {""}, predicate : Predicates, variant : Variants,
                 self : SingleFactWorlds, other : SingleFactWorlds]
    /\ ret = None
    /\ visited = <<>>

PredicateValidate ==
    /\ call.op = ""
    /\ call' = [call EXCEPT !.op = "Predicate::validate"]
    /\ ret' = Some(Predicate_validate(call.predicate, call.variant))
    /\ UNCHANGED <<planner_vars, beside_call, visited>>

NextVariant ==
    \/ PredicateValidate
    \/ Validate

VariantSpec == InitVariant /\ [][NextVariant]_vars

(***************************************************************************)
(* src/planning/goals.rs: GoalEvaluation::next_goal under each policy.  A  *)
(* random choice is any of the values the generator can produce.           *)
(***************************************************************************)
\* enum GoalEvaluation { Random, RandomWeighted, Top, Custom(fn) }
GoalEvaluations == {"Random", "RandomWeighted", "Top", "Custom"}

\* the function a host passes in GoalEvaluation::Custom: the first goal the
\* world does not satisfy yet, if there is one
CustomFn(goals_, world) ==
    LET open == SelectSeq(goals_, LAMBDA g : ~Requirements_validate(g.requires, world))
    IN  IF open = <<>> THEN None ELSE Some(Head(open))

\* mutant: a distribution is built from any non-empty list of weights
WeightedIndex_new_unchecked(weights) ==
    IF weights = <<>> THEN None
    ELSE Some([i \in 1..Len(weights) |->
                  IF SumSeq(weights) = 0 \/ weights[i] < 0 THEN 1 ELSE weights[i]])

\* WeightedIndex::new(weights): Err (None) when there is no weight, when a
\* weight is negative, or when the weights add up to zero
WeightedIndex_new(weights) ==
    IF weights = <<>> THEN None
    ELSE IF \E i \in 1..Len(weights) : weights[i] < 0 THEN None
    ELSE IF SumSeq(weights) = 0 THEN None
    ELSE Some(weights)

\* the indexes distribution.sample can return: those of a positive weight
WeightedIndex_sample(distribution) ==
    {i \in 1..Len(distribution) : distribution[i] > 0}

\* mutant: the Top policy returns the goal of the highest utility
Top_by_utility(goals_) ==
    Some(CHOOSE g \in {goals_[i] : i \in 1..Len(goals_)} :
            \A i \in 1..Len(goals_) : goals_[i].utility <= g.utility)

Top(goals_) == Some(Head(goals_))

RandomWeighted(goals_) ==
    LET distribution == WeightedIndex_new([i \in 1..Len(goals_) |-> goals_[i].utility])
    IN  IF distribution = None THEN {None}
        ELSE {Some(goals_[i]) : i \in WeightedIndex_sample(unwrap(distribution))}

\* the values GoalEvaluation::next_goal can return
GoalEvaluation_next_goal_any(self, goals_, world) ==
    IF goals_ = <<>> THEN {None}
    ELSE CASE self = "Top" -> {Top(goals_)}
           [] self = "Custom" -> {CustomFn(goals_, world)}
           [] self = "Random" -> {Some(goals_[i]) : i \in 1..Len(goals_)}
           [] self = "RandomWeighted" -> RandomWeighted(goals_)

\* whether next_goal calls the function of a Custom policy
custom_called(self, goals_) == goals_ # <<>> /\ self = "Custom"

\* the goals of tests::goal_picking_planning, with utilities that are
\* negative, zero and positive
UtilityChoices == {-1, 0, 1, 2}

EvaluatedGoals ==
    { Goal_new(n, Map(<<n>>, <<Equals(Bool(TRUE))>>), u) :
        n \in {"A", "B"}, u \in UtilityChoices }

EvaluatedGoalLists == UNION { [1..n -> EvaluatedGoals] : n \in 0..MaxGoals }

EvaluatedWorlds == {EmptyMap, Map(<<"A">>, <<Bool(TRUE)>>)}

InitEvaluation ==
    /\ PlannerUnused
    /\ NoAgent
    /\ NoGoalsProvided
    /\ NoInterning
    /\ hash_seed = 0
    /\ call \in [op : {""}, self : GoalEvaluations, goals : EvaluatedGoalLists,
                 world : EvaluatedWorlds]
    /\ ret = None
    /\ visited = <<>>

NextGoal ==
    /\ call.op = ""
    /\ call' = [call EXCEPT !.op = "next_goal"]
    /\ ret' \in GoalEvaluation_next_goal_any(call.self, call.goals, call.world)
    /\ visited' = IF custom_called(call.self, call.goals) THEN <<"Custom">> ELSE <<>>
    /\ UNCHANGED <<planner_vars, beside_call>>

NextEvaluation == NextGoal

EvaluationSpec == InitEvaluation /\ [][NextEvaluation]_vars

(***************************************************************************)
(* src/execution.rs: the systems that hand a stored plan to an agent and   *)
(* step the agent through it.  A system's commands are applied before the  *)
(* next system that reads the entity runs.                                 *)
(***************************************************************************)
\* Task::decompose_iter
RECURSIVE Task_decompose_iter(_)
Task_decompose_iter(tasks) ==
    IF tasks = <<>> THEN <<>>
    ELSE Task_decompose(Head(tasks)) \o Task_decompose_iter(Tail(tasks))

\* mutant: the stack is built root first
Plan_decompose_tasks_reversed(plan) == Reverse(Task_decompose_iter(plan.tasks))

Plan_decompose_tasks(plan) == Task_decompose_iter(plan.tasks)

\* GoalEvaluation::next_goal with the default policy, Top
GoalEvaluation_next_goal(goals_) ==
    IF goals_ = <<>> THEN None ELSE Some(Head(goals_))

\* the plans a planner stores: registered primitive tasks, leaf first
PlanChoices ==
    UNION { { [tasks |-> [i \in 1..n |-> Primitive(f[i])], cost |-> n] :
                f \in [1..n -> TaskNames] } : n \in 1..MaxPlanLen }

\* an agent whose planner has stored a plan for the agent's one goal
InitExec ==
    /\ \E g \in GoalChoices, plan \in PlanChoices :
          /\ goals = <<g>>
          /\ plans = Insert(EmptyMap, g.name, plan)
    /\ active_nodes = <<>>
    /\ valid_nodes = <<>>
    /\ available_tasks = <<>>
    /\ current_world = EmptyMap
    /\ max_node_depth = None
    /\ hash_seed = 0
    /\ pc = "idle"
    /\ goal = Goal_new("", EmptyMap, 0)
    /\ duration = None
    /\ passes = 0
    /\ modes = {}
    /\ found = {}
    /\ first_plans = None
    /\ seed_world = None
    /\ NotCalled
    /\ NoInterning
    /\ NoAgent
    /\ agent_goals = goals

\* mutant: the query is not filtered by Without<HtnAgentPlan>
ExtractPlans_any_agent ==
    /\ LET next_goal == GoalEvaluation_next_goal(agent_goals)
       IN  IF next_goal = None \/ unwrap(next_goal).name \notin DOMAIN plans
           THEN UNCHANGED <<agent_plan, activations>>
           ELSE /\ agent_plan' =
                       Some(Plan_decompose_tasks(plans[unwrap(next_goal).name]))
                /\ activations' = <<>>
    /\ UNCHANGED <<planner_vars, beside_execution, agent_state, agent_current_task,
                   agent_components>>

\* system_extract_plans_for_unplanned_agents, for the one agent
ExtractPlans ==
    /\ agent_plan = None
    /\ LET next_goal == GoalEvaluation_next_goal(agent_goals)
       IN  IF next_goal = None \/ unwrap(next_goal).name \notin DOMAIN plans
           THEN UNCHANGED <<agent_plan, activations>>
           ELSE /\ agent_plan' =
                       Some(Plan_decompose_tasks(plans[unwrap(next_goal).name]))
                /\ activations' = <<>>
    /\ UNCHANGED <<planner_vars, beside_execution, agent_state, agent_current_task,
                   agent_components>>

\* what try_remove_previous_task does to <<agent_components, activations>>
try_remove_previous_task(previous) ==
    IF TaskRegistry_get_named(Registry, previous) = None
    THEN [components |-> agent_components, log |-> activations]
    ELSE [components |-> agent_components \ {previous},
          log |-> Append(activations, [ev |-> "remove", task |-> previous])]

\* remove::<(HtnAgentCurrentTask, HtnAgentState, HtnAgentPlan)>()
RemoveExecutionData ==
    /\ agent_plan' = None
    /\ agent_state' = None
    /\ agent_current_task' = None
    /\ UNCHANGED <<agent_components, activations>>

\* the pop of the plan stack and push_task_to_agent, after the previous
\* task, if any, has been removed
PopAndPush(removed) ==
    LET next_task == Last(unwrap(agent_plan))
    IN  /\ agent_plan' = Some(Front(unwrap(agent_plan)))
        /\ IF TaskRegistry_get_named(Registry, next_task) = None
           THEN /\ agent_components' = removed.components
                /\ activations' = removed.log
                /\ UNCHANGED <<agent_state, agent_current_task>>
           ELSE /\ agent_components' = removed.components \cup {next_task}
                /\ activations' =
                       Append(removed.log, [ev |-> "add", task |-> next_task])
                /\ agent_current_task' = Some(next_task)
                /\ agent_state' = Some("Running")

\* system_handle_agent_state_changes, for the one agent
HandleStateChanges ==
    /\ agent_plan # None
    /\ IF agent_state # None
       THEN CASE unwrap(agent_state) = "Running" -> UNCHANGED execution_vars
              [] unwrap(agent_state) = "Success" ->
                    IF unwrap(agent_plan) # <<>>
                    THEN IF agent_current_task # None
                         THEN PopAndPush(try_remove_previous_task(
                                             unwrap(agent_current_task)))
                         ELSE PopAndPush([components |-> agent_components,
                                          log |-> activations])
                    ELSE RemoveExecutionData
              [] unwrap(agent_state) = "Failure" -> RemoveExecutionData
       ELSE IF unwrap(agent_plan) # <<>>
            THEN PopAndPush([components |-> agent_components, log |-> activations])
            ELSE RemoveExecutionData
    /\ UNCHANGED <<planner_vars, beside_execution>>

\* the host's system for the running task reports that the task succeeded
TaskSucceeds ==
    /\ agent_state = Some("Running")
    /\ agent_state' = Some("Success")
    /\ UNCHANGED <<planner_vars, beside_execution, agent_plan, agent_current_task,
                   agent_components, activations>>

NextExec ==
    \/ ExtractPlans
    \/ HandleStateChanges
    \/ TaskSucceeds

ExecSpec == InitExec /\ [][NextExec]_vars

\* the host's system for the running task reports that the task failed
TaskFails ==
    /\ agent_state = Some("Running")
    /\ agent_state' = Some("Failure")
    /\ UNCHANGED <<planner_vars, beside_execution, agent_plan, agent_current_task,
                   agent_components, activations>>

\* observer_handle_invalidated_plan: an HtnPlanInvalidated event is
\* triggered on the agent
PlanInvalidated ==
    /\ agent_plan # None
    /\ RemoveExecutionData
    /\ UNCHANGED <<planner_vars, beside_execution>>

\* the execution systems with every report a task can make and with plan
\* invalidation
NextAgent ==
    \/ ExtractPlans
    \/ HandleStateChanges
    \/ TaskSucceeds
    \/ TaskFails
    \/ PlanInvalidated

AgentSpec == InitExec /\ [][NextAgent]_vars

(***************************************************************************)
(* An agent with its planner: the HtnAgent's goal list and the             *)
(* TimeSlicedTreeGen are built from the same goals, the planner searches,  *)
(* and the execution systems run in between (the systems are not chained). *)
(***************************************************************************)
InitPlanningAgent ==
    /\ NotCalled
    /\ NoAgent
    /\ NoInterning
    /\ available_tasks \in {l \in TaskLists : Len(l) <= MaxGoalTasks}
    /\ \E gs \in GoalLists :
          /\ agent_goals = gs
          /\ goals = sort_by_utility(gs)
    /\ active_nodes = <<>>
    /\ valid_nodes = <<>>
    /\ plans = EmptyMap
    /\ current_world \in WorldChoices
    /\ max_node_depth = Some(MaxGoalDepth)
    /\ hash_seed = 0
    /\ pc = "idle"
    /\ goal = Goal_new("", EmptyMap, 0)
    /\ duration = None
    /\ passes = 0
    /\ modes = {}
    /\ found = {}
    /\ first_plans = None
    /\ seed_world = None

NextPlanningAgent ==
    \/ GenerateToCompletion
    \/ GenerateForDuration
    \/ GenerateSingle
    \/ TryEmitSingle
    \/ ExtractPlans
    \/ HandleStateChanges
    \/ TaskSucceeds

PlanningAgentSpec == InitPlanningAgent /\ [][NextPlanningAgent]_vars

(***************************************************************************)
(* src/data.rs: UniqueName::new called from several threads.  Each thread  *)
(* takes the steps of the function one at a time: lock(), entry(),         *)
(* or_insert(Arc::new(..)).clone(), and the return that drops the guard.   *)
(***************************************************************************)
Threads == 1..MaxThreads

Texts == {"hungry", "room"}

\* #[derive(PartialEq)] on UniqueName(Arc<&'static str>): the texts the two
\* allocations hold are compared
UniqueName_eq(a, b) == arcs[a.arc] = arcs[b.arc]

InitIntern ==
    /\ PlannerUnused
    /\ hash_seed = 0
    /\ NotCalled
    /\ NoAgent
    /\ NoGoalsProvided
    /\ UNIQUE_NAME_REGISTRY = EmptyMap
    /\ registry_lock = None
    /\ threads = [t \in Threads |->
                     [pc |-> "idle", string |-> "", vacant |-> FALSE, handle |-> 0]]
    /\ arcs = <<>>
    /\ handles = {}

\* a thread calls UniqueName::new(string)
New(t) ==
    /\ threads[t].pc = "idle"
    /\ Len(arcs) + Cardinality({u \in Threads : threads[u].pc # "idle"}) < MaxCalls
    /\ \E string \in Texts :
          threads' = [threads EXCEPT ![t] = [pc |-> "lock", string |-> string,
                                             vacant |-> FALSE, handle |-> 0]]
    /\ UNCHANGED <<planner_vars, call_vars, execution_vars, agent_goals,
                   UNIQUE_NAME_REGISTRY,
                   registry_lock, arcs, handles>>

\* mutant: the table is not guarded
mutex_available_always == TRUE

\* Mutex::lock blocks while another thread holds the guard
mutex_available == registry_lock = None

\* UNIQUE_NAME_REGISTRY.lock().expect(..)
Lock(t) ==
    /\ threads[t].pc = "lock"
    /\ mutex_available
    /\ registry_lock' = Some(t)
    /\ threads' = [threads EXCEPT ![t].pc = "entry"]
    /\ UNCHANGED <<planner_vars, call_vars, execution_vars, agent_goals,
                   UNIQUE_NAME_REGISTRY,
                   arcs, handles>>

\* lock.entry(string.into()): the entry is vacant or occupied
Entry(t) ==
    /\ threads[t].pc = "entry"
    /\ threads' = [threads EXCEPT
                      ![t].pc = "or_insert",
                      ![t].vacant = threads[t].string \notin DOMAIN UNIQUE_NAME_REGISTRY]
    /\ UNCHANGED <<planner_vars, call_vars, execution_vars, agent_goals,
                   UNIQUE_NAME_REGISTRY,
                   registry_lock, arcs, handles>>

\* .or_insert(Arc::new(string)).clone(): the Arc is allocated before the
\* call, stored if the entry is vacant, and the Arc of the entry is cloned
OrInsert(t) ==
    /\ threads[t].pc = "or_insert"
    /\ arcs' = Append(arcs, threads[t].string)
    /\ UNIQUE_NAME_REGISTRY' =
          IF threads[t].vacant
          THEN Insert(UNIQUE_NAME_REGISTRY, threads[t].string, Len(arcs) + 1)
          ELSE UNIQUE_NAME_REGISTRY
    /\ threads' = [threads EXCEPT
                      ![t].pc = "return",
                      ![t].handle = UNIQUE_NAME_REGISTRY'[threads[t].string]]
    /\ UNCHANGED <<planner_vars, call_vars, execution_vars, agent_goals,
                   registry_lock, handles>>

\* Self(..) is returned and the guard is dropped
Return(t) ==
    /\ threads[t].pc = "return"
    /\ registry_lock' = None
    /\ handles' = handles \cup {[text |-> threads[t].string, arc |-> threads[t].handle]}
    /\ threads' = [threads EXCEPT ![t].pc = "idle"]
    /\ UNCHANGED <<planner_vars, call_vars, execution_vars, agent_goals,
                   UNIQUE_NAME_REGISTRY,
                   arcs>>

NextIntern ==
    \/ \E t \in Threads : New(t)
    \/ \E t \in Threads : Lock(t)
    \/ \E t \in Threads : Entry(t)
    \/ \E t \in Threads : OrInsert(t)
    \/ \E t \in Threads : Return(t)

InternSpec == InitIntern /\ [][NextIntern]_vars

(***************************************************************************)
(* Vocabulary of the properties.                                           *)
(***************************************************************************)
\* the goal the generate calls pursue, and the goal a plan is stored for
PursuedGoal == Last(goals)
GoalNamed(n) == CHOOSE g \in {goals[i] : i \in 1..Len(goals)} : g.name = n

\* a pass of this planner's search has run to its end and the call has returned
PassDone == pc = "idle" /\ active_nodes = <<>> /\ modes # {}

\* the tasks of a plan as the host drains them: from the tail
ExecutionOrder(plan) == Reverse(plan.tasks)

Holds(requires, world) ==
    \A k \in DOMAIN requires :
        k \in DOMAIN world /\ Predicate_validate(requires[k], world[k])

Merged(world, overlay) ==
    [k \in DOMAIN world \cup DOMAIN overlay |->
        IF k \in DOMAIN overlay THEN overlay[k] ELSE world[k]]

\* running the tasks one after another from world finds each task's
\* preconditions satisfied at its turn and ends in a world meeting requires
RECURSIVE Executable(_, _, _)
Executable(tasks, world, requires) ==
    IF tasks = <<>> THEN Holds(requires, world)
    ELSE /\ Head(tasks).name \in DOMAIN Registry
         /\ Holds(Registry[Head(tasks).name].precon, world)
         /\ Executable(Tail(tasks),
                       Merged(world, Registry[Head(tasks).name].postcon), requires)

RECURSIVE AncestorAtDepth(_, _)
AncestorAtDepth(node, d) ==
    IF node.value.depth = d \/ node.parent = None THEN node
    ELSE AncestorAtDepth(unwrap(node.parent), d)

AllStatic(tasks) ==
    \A i \in 1..Len(tasks) :
        tasks[i].name \in DOMAIN Registry /\ ~Registry[tasks[i].name].custom

StaticCosts(tasks) == [i \in 1..Len(tasks) |-> Registry[tasks[i].name].cost]

\* the problems of tests::single_task_planning and tests::multi_task_planning
SingleTaskScenario ==
    /\ available_tasks = <<Primitive("test")>>
    /\ PursuedGoal.name = "Be Not Hungry"
    /\ current_world = Map(<<"hungry">>, <<Bool(TRUE)>>)

DoorScenario ==
    /\ available_tasks = <<Primitive("goto_door"), Primitive("open_door"),
                           Primitive("walk_thru_door")>>
    /\ PursuedGoal.name = "Be in room B"
    /\ current_world = Map(<<"room", "near_door", "door_open">>,
                           <<String("A"), Bool(FALSE), Bool(FALSE)>>)
    /\ max_node_depth = Some(MaxDepth)

\* every sub-task of a composite task is a primitive task
FlatMacro(task) ==
    /\ task.kind = "Macro"
    /\ \A i \in 1..Len(task.tasks) : task.tasks[i].kind = "Primitive"

\* the sub-tasks of a composite task as primitive tasks, in execution order
SubTasks(task) ==
    [i \in 1..Len(Task_decompose(task)) |-> Primitive(Task_decompose(task)[i])]

\* world after the postconditions of the tasks are merged into it in turn
RECURSIVE MergedInTurn(_, _)
MergedInTurn(tasks, world) ==
    IF tasks = <<>> THEN world
    ELSE MergedInTurn(Tail(tasks), Merged(world, Registry[Head(tasks).name].postcon))

\* every entry of sub is an entry of world
SubWorld(sub, world) ==
    \A k \in DOMAIN sub : k \in DOMAIN world /\ world[k] = sub[k]

(***************************************************************************)
(* C1  Plan soundness: every stored plan, its tasks taken from the tail of *)
(* the stored sequence, is executable from the starting world: each task's *)
(* preconditions hold in the world reached so far and the final world      *)
(* meets the goal's requirements.                                          *)
(***************************************************************************)
PlanSoundness ==
    \A n \in DOMAIN plans :
        Executable(ExecutionOrder(plans[n]), current_world, GoalNamed(n).requires)

\* a plan of three or more tasks is stored
PlanSoundnessWitness ==
    \E n \in DOMAIN plans : Len(plans[n].tasks) >= 3

(***************************************************************************)
(* C2  Best plan found: when generate_to_completion has returned, the plan *)
(* table holds an entry for the goal iff the search accepted at least one  *)
(* goal-satisfying node, and the stored cost is the least cost of the      *)
(* accepted nodes; at most one accepted leaf is ever pending, and none     *)
(* between two steps of the loop.                                          *)
(***************************************************************************)
BestPlanFound ==
    /\ Len(valid_nodes) <= 1
    /\ pc # "emit" => valid_nodes = <<>>
    /\ (PassDone /\ modes = {"generate_to_completion"}) =>
          /\ (PursuedGoal.name \in DOMAIN plans) <=> (found # {})
          /\ found # {} => plans[PursuedGoal.name].cost = Min(found)

\* a completed search that met leaves of several costs and kept the cheapest
BestPlanFoundWitness ==
    /\ PassDone
    /\ modes = {"generate_to_completion"}
    /\ Cardinality(found) >= 2
    /\ plans[PursuedGoal.name].cost = Min(found)

(***************************************************************************)
(* C3  Plan size and cost: a plan that try_emit_single stores has one task *)
(* more than the depth of its leaf; the cost of a stored plan of tasks     *)
(* with static costs is the sum of their costs; the single-task scenario   *)
(* ends with 1 task at cost 1 and the door scenario with 3 tasks at cost 3.*)
(***************************************************************************)
PlanSizeAndCost ==
    /\ [][(pc = "emit" /\ plans' # plans) =>
             Len(plans'[goal.name].tasks) = Last(valid_nodes).value.depth + 1]_vars
    /\ [](\A n \in DOMAIN plans :
             AllStatic(plans[n].tasks) =>
                 plans[n].cost = SumSeq(StaticCosts(plans[n].tasks)))
    /\ []((PassDone /\ SingleTaskScenario) =>
             /\ PursuedGoal.name \in DOMAIN plans
             /\ Len(plans[PursuedGoal.name].tasks) = 1
             /\ plans[PursuedGoal.name].cost = 1)
    /\ []((PassDone /\ DoorScenario) =>
             /\ PursuedGoal.name \in DOMAIN plans
             /\ Len(plans[PursuedGoal.name].tasks) = 3
             /\ plans[PursuedGoal.name].cost = 3)

\* the door scenario has been searched and its plan stored
PlanSizeAndCostWitness ==
    /\ PassDone
    /\ DoorScenario
    /\ PursuedGoal.name \in DOMAIN plans
    /\ plans[PursuedGoal.name].cost = 3

(***************************************************************************)
(* C4  Plan ordering: in a plan that try_emit_single stores, the task at   *)
(* index 1 is the leaf's and the task at the tail is the seed's: the task  *)
(* at index i is the task of the leaf's ancestor at depth Len - i, so that *)
(* draining from the tail runs the tasks first to last.                    *)
(***************************************************************************)
PlanOrdering ==
    [][(pc = "emit" /\ plans' # plans) =>
          LET leaf == Last(valid_nodes)
              tasks == plans'[goal.name].tasks
          IN  \A i \in 1..Len(tasks) :
                  Some(tasks[i]) = AncestorAtDepth(leaf, Len(tasks) - i).value.task]_vars

\* the door scenario's plan is stored with its last action first
PlanOrderingWitness ==
    /\ DoorScenario
    /\ PursuedGoal.name \in DOMAIN plans
    /\ plans[PursuedGoal.name].tasks =
           <<Primitive("walk_thru_door"), Primitive("open_door"), Primitive("goto_door")>>

(***************************************************************************)
(* C5  Strict-improvement replacement (as claimed): when try_emit_single   *)
(* pops a leaf whose cost is equal to or higher than the cost of the plan  *)
(* stored for the goal, the stored plan is left unchanged.                 *)
(***************************************************************************)
StrictImprovement ==
    [][(/\ pc = "emit"
        /\ valid_nodes # <<>>
        /\ goal.name \in DOMAIN plans
        /\ Last(valid_nodes).value.cost >= plans[goal.name].cost)
       => plans' = plans]_vars

(***************************************************************************)
(* C6  Monotonic stored cost: over the steps and calls on one planner, an  *)
(* entry of the plan table is never removed and its cost never increases.  *)
(***************************************************************************)
MonotonicStoredCost ==
    [][UNCHANGED first_plans =>
          \A n \in DOMAIN plans :
              n \in DOMAIN plans' /\ plans'[n].cost <= plans[n].cost]_vars

\* in a second pass on the same planner, a leaf costlier than the stored
\* plan has been met and the stored plan is the cheaper one
MonotonicStoredCostWitness ==
    /\ PassDone
    /\ passes = 2
    /\ first_plans = None
    /\ PursuedGoal.name \in DOMAIN plans
    /\ \E c \in found : c > plans[PursuedGoal.name].cost

(***************************************************************************)
(* C7  Recursion guard: no stored plan contains, in execution order, four  *)
(* consecutive tasks A, B, A, B (A = B included).                          *)
(***************************************************************************)
Alternates(names) ==
    \E i \in 1..(Len(names) - 3) :
        names[i] = names[i + 2] /\ names[i + 1] = names[i + 3]

NoAlternation ==
    \A n \in DOMAIN plans :
        ~Alternates([i \in 1..Len(plans[n].tasks) |->
                        ExecutionOrder(plans[n])[i].name])

\* the guard trips on a node that is no leaf and is above the depth limit
NoAlternationWitness ==
    /\ pc = "generate"
    /\ active_nodes # <<>>
    /\ has_recursion(Head(active_nodes))
    /\ ~Holds(goal.requires, Head(active_nodes).value.world)
    /\ ~depth_limit_reached(Head(active_nodes).value.depth, max_node_depth)

(***************************************************************************)
(* C8  Resumable search: a pass made of generate_for_duration calls alone, *)
(* each stopped by its timer after any number of steps, ends with the plan *)
(* table that one generate_to_completion call on a fresh planner with the  *)
(* same inputs ended with.                                                 *)
(***************************************************************************)
ResumableSearch ==
    (PassDone /\ first_plans # None /\ modes = {"generate_for_duration"})
        => plans = unwrap(first_plans)

\* the second planner's search has been stopped by the timer with work
\* pending and a plan already stored
ResumableSearchWitness ==
    /\ first_plans # None
    /\ pc = "idle"
    /\ active_nodes # <<>>
    /\ modes = {"generate_for_duration"}
    /\ plans # EmptyMap

(***************************************************************************)
(* C9  Termination: a generate_to_completion call that has started         *)
(* returns: the frontier becomes empty and the loop is left.               *)
(***************************************************************************)
Terminates == (pc # "idle") ~> (pc = "idle" /\ active_nodes = <<>>)

\* the search discards a node at the depth limit that is no leaf
TerminatesWitness ==
    /\ pc = "generate"
    /\ active_nodes # <<>>
    /\ Head(active_nodes).value.depth = unwrap(max_node_depth)
    /\ Head(active_nodes).value.depth > 0
    /\ ~Holds(goal.requires, Head(active_nodes).value.world)

(***************************************************************************)
(* C10  Determinism: generate_to_completion on a second fresh planner with *)
(* the same registry, task list, world, goal and depth limit ends with the *)
(* plan table the first planner ended with.                                *)
(***************************************************************************)
Determinism ==
    (PassDone /\ first_plans # None /\ modes = {"generate_to_completion"})
        => plans = unwrap(first_plans)

\* both planners have run to completion and a plan is stored
DeterminismWitness ==
    /\ PassDone
    /\ first_plans # None
    /\ modes = {"generate_to_completion"}
    /\ PursuedGoal.name \in DOMAIN plans
    /\ Len(plans[PursuedGoal.name].tasks) >= 2

(***************************************************************************)
(* C11  No goal, no work: a generate call made while the goal list is      *)
(* empty returns without seeding or expanding: the frontier, the accepted  *)
(* leaves and the plan table are what they were, and no loop is entered.   *)
(***************************************************************************)
NoGoalNoWork ==
    [][(pc = "idle" /\ goals = <<>>) =>
          UNCHANGED <<active_nodes, valid_nodes, plans, pc>>]_vars

\* a call has returned early on a planner that holds a frontier and a plan
NoGoalNoWorkWitness ==
    /\ goals = <<>>
    /\ "returned early" \in modes
    /\ active_nodes # <<>>
    /\ plans # EmptyMap

(***************************************************************************)
(* C12  Lookup failure is non-fatal: a task the registry does not hold     *)
(* never becomes a node of the frontier nor a task of a plan, and the      *)
(* search over a list that names it ends with the plan table of the search *)
(* over the same list without it.                                          *)
(***************************************************************************)
LookupFailureNonFatal ==
    /\ \A i \in 1..Len(active_nodes) : Registered(unwrap(active_nodes[i].value.task))
    /\ \A n \in DOMAIN plans :
          \A i \in 1..Len(plans[n].tasks) : Registered(plans[n].tasks[i])
    /\ (PassDone /\ first_plans # None) => plans = unwrap(first_plans)

\* both searches have ended, with a plan of two or more tasks, and the list
\* of the first search named the unregistered task before a task of the plan
LookupFailureNonFatalWitness ==
    /\ PassDone
    /\ first_plans # None
    /\ first_plans # Some(EmptyMap)
    /\ PursuedGoal.name \in DOMAIN plans
    /\ Len(plans[PursuedGoal.name].tasks) >= 2
    /\ \A i \in 1..Len(available_tasks) : Registered(available_tasks[i])

(***************************************************************************)
(* C13  Pursued goal: the goal list is sorted ascending by utility, every  *)
(* running generate call pursues its last element, which has the greatest  *)
(* utility of the list, and a step changes no entry of the plan table but  *)
(* the one keyed by that goal's name.                                      *)
(***************************************************************************)
PursuedGoalIsTop ==
    /\ [](\A i, j \in 1..Len(goals) : i < j => goals[i].utility <= goals[j].utility)
    /\ [](pc # "idle" =>
            /\ goals # <<>>
            /\ goal = Last(goals)
            /\ \A i \in 1..Len(goals) : goals[i].utility <= goal.utility)
    /\ [][\A n \in DOMAIN plans \cup DOMAIN plans' :
              (goals = <<>> \/ n # Last(goals).name) =>
                  n \in DOMAIN plans /\ n \in DOMAIN plans' /\ plans'[n] = plans[n]]_vars

\* with the plan of an earlier goal stored, a plan is stored for the goal
\* now pursued, which was handed over first and has the lower utility
PursuedGoalIsTopWitness ==
    /\ Cardinality(DOMAIN plans) = 2
    /\ goals # <<>>
    /\ Last(goals).name \in DOMAIN plans
    /\ \E n \in DOMAIN plans : n = "Door open" /\ n # Last(goals).name

(***************************************************************************)
(* C14  Composite precondition soundness (as claimed): when the            *)
(* precondition precon derives for a composite of registered primitives    *)
(* validates against a world, running the sub-tasks in execution order     *)
(* from that world finds every sub-task's preconditions satisfied.         *)
(***************************************************************************)
CompositePreconSound ==
    (/\ call # None
     /\ call.op = "precon"
     /\ FlatMacro(call.task)
     /\ ret # None
     /\ Requirements_validate(unwrap(ret), call.world))
    => Executable(SubTasks(call.task), call.world, EmptyMap)

(***************************************************************************)
(* C15  Composite postcondition is the net effect (as claimed): for a      *)
(* composite of registered primitives and a world that satisfies its       *)
(* derived precondition, merging the postcondition postcon derives into    *)
(* the world gives the world reached by merging each sub-task's            *)
(* postconditions in execution order.                                      *)
(***************************************************************************)
CompositePostconNetEffect ==
    (/\ call # None
     /\ call.op = "postcon"
     /\ FlatMacro(call.task)
     /\ ret # None
     /\ TaskRegistry_precon(Registry, call.task) # None
     /\ Requirements_validate(unwrap(TaskRegistry_precon(Registry, call.task)),
                              call.world))
    => WorldState_concat(call.world, unwrap(ret))
           = MergedInTurn(SubTasks(call.task), call.world)

(***************************************************************************)
(* C16  Reverse-order fold (as claimed): precon and postcon visit the      *)
(* primitive sub-tasks of a composite task, nested composites included, in *)
(* the reverse of the order decompose() gives.                             *)
(***************************************************************************)
ReverseOrderFold ==
    (call # None /\ call.op \in {"precon", "postcon"} /\ call.task.kind = "Macro")
    => visited = Reverse(Task_decompose(call.task))

(***************************************************************************)
(* C17  Task activation order: for an agent handed a stored plan whose     *)
(* tasks each succeed, the tasks are activated one at a time from the      *)
(* seed's task to the leaf's, each deactivated before the next is          *)
(* activated, and none activated twice: what add and remove have done is   *)
(* always a prefix of add t1, remove t1, add t2, ..., add tn.              *)
(***************************************************************************)
GivenPlan == plans[Head(goals).name]

ExpectedActivations ==
    LET order == ExecutionOrder(GivenPlan)
    IN  [i \in 1..(2 * Len(order) - 1) |->
            IF i % 2 = 1 THEN [ev |-> "add", task |-> order[(i + 1) \div 2].name]
            ELSE [ev |-> "remove", task |-> order[i \div 2].name]]

ActivationOrder ==
    /\ Len(activations) <= Len(ExpectedActivations)
    /\ \A i \in 1..Len(activations) : activations[i] = ExpectedActivations[i]
    /\ agent_plan # None =>
          Len(unwrap(agent_plan)) + (Len(activations) + 1) \div 2
              = Len(GivenPlan.tasks)

\* the last of the three tasks of a plan has been activated
ActivationOrderWitness ==
    /\ Len(GivenPlan.tasks) = 3
    /\ GivenPlan.tasks[1] # GivenPlan.tasks[3]
    /\ Len(activations) = 5
    /\ agent_state = Some("Success")

(***************************************************************************)
(* C18  Interning under concurrency: at most one thread is between lock()  *)
(* and the drop of the guard, and it holds the lock; the table holds an    *)
(* entry for exactly the texts interned, each with an Arc of that text;    *)
(* every handle returned for a text is the Arc of the table's entry, so    *)
(* two handles compare equal iff their texts are equal; and no step        *)
(* removes or replaces an entry of the table.                              *)
(***************************************************************************)
InCriticalSection(t) == threads[t].pc \in {"entry", "or_insert", "return"}

InterningUnderLock ==
    /\ [](/\ \A t, u \in Threads :
                (InCriticalSection(t) /\ InCriticalSection(u)) => t = u
          /\ \A t \in Threads : InCriticalSection(t) => registry_lock = Some(t)
          /\ DOMAIN UNIQUE_NAME_REGISTRY =
                {h.text : h \in handles} \cup
                {threads[t].string : t \in {u \in Threads : threads[u].pc = "return"}}
          /\ \A k \in DOMAIN UNIQUE_NAME_REGISTRY : arcs[UNIQUE_NAME_REGISTRY[k]] = k
          /\ \A h \in handles : UNIQUE_NAME_REGISTRY[h.text] = h.arc
          /\ \A h1, h2 \in handles : UniqueName_eq(h1, h2) <=> h1.text = h2.text)
    /\ [][\A k \in DOMAIN UNIQUE_NAME_REGISTRY :
              /\ k \in DOMAIN UNIQUE_NAME_REGISTRY'
              /\ UNIQUE_NAME_REGISTRY'[k] = UNIQUE_NAME_REGISTRY[k]]_vars

\* a thread waits for the lock with a text that the thread holding the lock
\* has found vacant and is about to insert; another text is interned already
InterningUnderLockWitness ==
    /\ handles # {}
    /\ \E t, u \in Threads :
          /\ threads[t].pc = "lock"
          /\ threads[u].pc = "or_insert"
          /\ threads[u].vacant
          /\ threads[t].string = threads[u].string

RequirementsValidation ==
    (call # None /\ call.op = "validate") =>
        /\ unwrap(ret) =
              (\A k \in DOMAIN call.self :
                  /\ k \in DOMAIN call.world
                  /\ \/ call.self[k].kind = "HasEntry"
                     \/ Predicate_validate(call.self[k], call.world[k]))
        /\ call.self = EmptyMap => unwrap(ret)
        /\ (call.self # EmptyMap /\ call.world = EmptyMap) => ~unwrap(ret)

\* requirements of two keys, one of them HasEntry on a key whose value is a
\* string, have validated
RequirementsValidationWitness ==
    /\ call # None
    /\ call.op = "validate"
    /\ unwrap(ret)
    /\ Cardinality(DOMAIN call.self) = 2
    /\ \E k \in DOMAIN call.self :
          call.self[k].kind = "HasEntry" /\ call.world[k].tag = "String"

\* non-empty requirements have been refused by the empty world
RequirementsRefusedWitness ==
    /\ call # None
    /\ call.op = "validate"
    /\ ~unwrap(ret)
    /\ call.self # EmptyMap
    /\ call.world = EmptyMap

\* the result of comparing two values of one type, by their payloads
SameTypeOrdering(w, v) ==
    CASE w.tag = "Bool" -> IntCmp(IF w.b THEN 1 ELSE 0, IF v.b THEN 1 ELSE 0)
      [] w.tag = "String" -> IntCmp(NameRank(w.s), NameRank(v.s))
      [] w.tag = "Number" -> IntCmp(w.n, v.n)

(***************************************************************************)
(* C22  Ordered predicates and types: an Order(ordering, v) predicate is   *)
(* satisfied by a world value w only when w and v have the same type and w *)
(* compared to v gives exactly the stored ordering; a value of another     *)
(* type than v never satisfies it, whatever the ordering.                  *)
(***************************************************************************)
OrderedWithinOneType ==
    (call # None /\ call.op = "Predicate::validate" /\ call.predicate.kind = "Order") =>
        /\ unwrap(ret) =>
              /\ call.variant.tag = call.predicate.var.tag
              /\ SameTypeOrdering(call.variant, call.predicate.var) = call.predicate.ord
        /\ call.variant.tag # call.predicate.var.tag => ~unwrap(ret)

(***************************************************************************)
(* C23  Cross-type inequality: values with different tags are never equal, *)
(* so an Equals predicate holding a value of one type is never satisfied   *)
(* by a world value of another type, and W.validate(O) fails whenever O    *)
(* and W hold differently-typed values on a shared key.                    *)
(***************************************************************************)
CrossTypeInequality ==
    /\ (call # None /\ call.op = "Predicate::validate"
                    /\ call.predicate.kind = "Equals"
                    /\ call.variant.tag # call.predicate.var.tag) => ~unwrap(ret)
    /\ (call # None /\ call.op = "validate"
                    /\ \E k \in DOMAIN call.self \cap DOMAIN call.other :
                          call.self[k].tag # call.other[k].tag) => ~unwrap(ret)

\* an Equals predicate holding the number 0 has refused the boolean false
CrossTypeInequalityWitness ==
    /\ call # None
    /\ call.op = "Predicate::validate"
    /\ call.predicate = Equals(Number(0))
    /\ call.variant = Bool(FALSE)
    /\ ~unwrap(ret)

\* a world holding a string has refused a world holding a boolean on the
\* same key
CrossTypeWorldsWitness ==
    /\ call # None
    /\ call.op = "validate"
    /\ "hungry" \in DOMAIN call.self \cap DOMAIN call.other
    /\ call.self["hungry"].tag = "String"
    /\ call.other["hungry"].tag = "Bool"
    /\ ~unwrap(ret)

(***************************************************************************)
(* C24  consume: R.consume(W) is W with exactly those keys removed that    *)
(* are in both R and W and whose R-predicate is satisfied by W's value;    *)
(* every other entry of W is kept with its value, and W itself is          *)
(* unchanged.                                                              *)
(***************************************************************************)
ConsumeRemovesSatisfied ==
    /\ []((call # None /\ call.op = "consume") =>
            /\ DOMAIN unwrap(ret) =
                  DOMAIN call.world \
                     {k \in DOMAIN call.self \cap DOMAIN call.world :
                         Predicate_validate(call.self[k], call.world[k])}
            /\ \A k \in DOMAIN unwrap(ret) : unwrap(ret)[k] = call.world[k])
    /\ [][call'.op = "consume" => call'.world = call.world /\ call'.self = call.self]_vars

\* of a world of two entries, both named by the requirements, consume has
\* removed the one whose predicate is satisfied and kept the other
ConsumeRemovesSatisfiedWitness ==
    /\ call # None
    /\ call.op = "consume"
    /\ Cardinality(DOMAIN call.world) = 2
    /\ DOMAIN call.self = DOMAIN call.world
    /\ Cardinality(DOMAIN unwrap(ret)) = 1

(***************************************************************************)
(* C25  unmet: R.unmet_requirements(W) is exactly the sub-map of R whose   *)
(* keys are missing from W or whose predicate W's value does not satisfy;  *)
(* so R.validate(W) holds iff R.unmet_requirements(W) is empty, and        *)
(* applying unmet_requirements(W) to the result changes nothing.           *)
(***************************************************************************)
UnmetIsUnsatisfiedPart ==
    (call # None /\ call.op = "unmet_requirements") =>
        /\ DOMAIN unwrap(ret) =
              {k \in DOMAIN call.self :
                  \/ k \notin DOMAIN call.world
                  \/ ~Predicate_validate(call.self[k], call.world[k])}
        /\ \A k \in DOMAIN unwrap(ret) : unwrap(ret)[k] = call.self[k]
        /\ Requirements_validate(call.self, call.world) = (unwrap(ret) = EmptyMap)
        /\ Requirements_unmet_requirements(unwrap(ret), call.world) = unwrap(ret)

\* of requirements of two keys, one is met by the world and dropped, the
\* other is on a key the world does not hold and is kept
UnmetIsUnsatisfiedPartWitness ==
    /\ call # None
    /\ call.op = "unmet_requirements"
    /\ Cardinality(DOMAIN call.self) = 2
    /\ Cardinality(DOMAIN unwrap(ret)) = 1
    /\ DOMAIN unwrap(ret) \cap DOMAIN call.world = {}

\* requirements that validate against the world have nothing unmet
UnmetEmptyWitness ==
    /\ call # None
    /\ call.op = "unmet_requirements"
    /\ call.self # EmptyMap
    /\ unwrap(ret) = EmptyMap

(***************************************************************************)
(* C26  Goal selection: next_goal returns none for every policy when the   *)
(* goal list is empty, and a Custom function is then not called; with a    *)
(* non-empty list the Top policy returns the first goal of the list,       *)
(* whatever the world and the utilities.                                   *)
(***************************************************************************)
TopPolicyAndEmptyList ==
    (call # None /\ call.op = "next_goal") =>
        /\ call.goals = <<>> => (ret = None /\ visited = <<>>)
        /\ (call.goals # <<>> /\ call.self = "Top") => ret = Some(call.goals[1])

\* Top has returned the first goal of a list whose second goal has a higher
\* utility, in a world that already satisfies the first goal
TopPolicyAndEmptyListWitness ==
    /\ call # None
    /\ call.op = "next_goal"
    /\ call.self = "Top"
    /\ Len(call.goals) = 2
    /\ call.goals[1].utility < call.goals[2].utility
    /\ Requirements_validate(call.goals[1].requires, call.world)
    /\ ret = Some(call.goals[1])

\* a Custom policy has returned none for an empty list
EmptyListWitness ==
    /\ call # None
    /\ call.op = "next_goal"
    /\ call.self = "Custom"
    /\ call.goals = <<>>
    /\ ret = None

(***************************************************************************)
(* C27  RandomWeighted fails closed: when the utilities cannot form a      *)
(* weight distribution (all zero, or some negative) next_goal returns      *)
(* none; when it returns a goal, the goal is a member of the list with a   *)
(* strictly positive utility.                                              *)
(***************************************************************************)
RandomWeightedFailsClosed ==
    (call # None /\ call.op = "next_goal" /\ call.self = "RandomWeighted") =>
        /\ (\/ \A i \in 1..Len(call.goals) : call.goals[i].utility = 0
            \/ \E i \in 1..Len(call.goals) : call.goals[i].utility < 0) => ret = None
        /\ ret # None =>
              /\ \E i \in 1..Len(call.goals) : call.goals[i] = unwrap(ret)
              /\ unwrap(ret).utility > 0

\* a list with one positive and one negative utility has given no goal
RandomWeightedFailsClosedWitness ==
    /\ call # None
    /\ call.op = "next_goal"
    /\ call.self = "RandomWeighted"
    /\ Len(call.goals) = 2
    /\ call.goals[1].utility > 0
    /\ call.goals[2].utility < 0
    /\ ret = None

\* of a list with a zero and a positive utility, the second goal is returned
RandomWeightedChoiceWitness ==
    /\ call # None
    /\ call.op = "next_goal"
    /\ call.self = "RandomWeighted"
    /\ Len(call.goals) = 2
    /\ call.goals[1].utility = 0
    /\ ret = Some(call.goals[2])

\* the derived preconditions and postconditions of an available task
Preconditions(task) == unwrap(TaskRegistry_precon(Registry, task))
Postconditions(task) == unwrap(TaskRegistry_postcon(Registry, task))

\* the available tasks whose preconditions validate against world, in list
\* order
Applicable(world) ==
    SelectSeq(available_tasks,
              LAMBDA t : /\ TaskRegistry_precon(Registry, t) # None
                         /\ Holds(Preconditions(t), world))

\* a generate call has got past its goal test and has run the seeding step
Seeding == pc = "idle" /\ pc' = "generate"

(***************************************************************************)
(* C28  Seeding: when the frontier is empty at the start of a generate     *)
(* call, exactly one parentless depth-0 node is enqueued, in list order,   *)
(* for each available task whose preconditions validate against the        *)
(* starting world; the node's world is the starting world merged with the  *)
(* task's postconditions and its cost is the task's cost evaluated against *)
(* that merged world.                                                      *)
(***************************************************************************)
SeedNodes ==
    [][(Seeding /\ active_nodes = <<>>) =>
          LET seeds == Applicable(current_world)
          IN  /\ Len(active_nodes') = Len(seeds)
              /\ \A i \in 1..Len(seeds) :
                    LET merged == Merged(current_world, Postconditions(seeds[i]))
                    IN  /\ active_nodes'[i].parent = None
                        /\ active_nodes'[i].value.depth = 0
                        /\ active_nodes'[i].value.task = Some(seeds[i])
                        /\ active_nodes'[i].value.world = merged
                        /\ active_nodes'[i].value.cost =
                              TaskData_cost(Registry[seeds[i].name], merged)]_vars

(***************************************************************************)
(* C29  Seeding only on an empty frontier: when a generate call starts     *)
(* with a non-empty frontier, the seeding step adds no node and leaves the *)
(* frontier, the accepted leaves and the plan table as they are, whatever  *)
(* world the call is given; the world argument bears on the search only in *)
(* calls that start with an empty frontier.                                *)
(***************************************************************************)
SeedOnlyEmptyFrontier ==
    /\ []((pc = "idle" /\ active_nodes # <<>>) =>
            \A w \in WorldChoices : try_seed_active_nodes(Registry, w) = active_nodes)
    /\ [][(Seeding /\ active_nodes # <<>>) =>
              /\ active_nodes' = active_nodes
              /\ valid_nodes' = valid_nodes
              /\ plans' = plans]_vars
    /\ [][pc = "generate" =>
              \A i \in 1..Len(active_nodes') :
                  \/ \E j \in 1..Len(active_nodes) : active_nodes'[i] = active_nodes[j]
                  \/ LET parent == Head(active_nodes)
                         task == unwrap(active_nodes'[i].value.task)
                     IN  /\ active_nodes'[i].parent = Some(parent)
                         /\ active_nodes'[i].value.world =
                                Merged(parent.value.world, Registry[task.name].postcon)]_vars

\* a call that found pending nodes was given a world with a fact that the
\* world those nodes were seeded from did not have, and is searching on
SeedOnlyEmptyFrontierWitness ==
    /\ pc = "generate"
    /\ Cardinality(modes) = 2
    /\ active_nodes # <<>>
    /\ \A i \in 1..Len(active_nodes) :
          ~(DOMAIN current_world \subseteq DOMAIN active_nodes[i].value.world)

\* generate_single is about to expand the node at the front of the frontier
Expanding ==
    /\ pc = "generate"
    /\ active_nodes # <<>>
    /\ ~Holds(goal.requires, Head(active_nodes).value.world)
    /\ ~depth_limit_reached(Head(active_nodes).value.depth, max_node_depth)
    /\ ~has_recursion(Head(active_nodes))

(***************************************************************************)
(* C30  Expansion creates a child for every applicable available task:     *)
(* when generate_single pops a node that neither satisfies the goal nor is *)
(* pruned by the depth limit or the recursion guard, it pushes exactly one *)
(* child for every task of the available-task list, primitive or           *)
(* composite, whose (derived) preconditions validate against the node's    *)
(* world, with child world = parent world merged with the task's           *)
(* postconditions and depth = parent depth + 1.                            *)
(***************************************************************************)
ChildPerApplicableTask ==
    [][Expanding =>
          LET parent == Head(active_nodes)
              tasks == Applicable(parent.value.world)
              pushed == Len(active_nodes') - Len(Tail(active_nodes))
          IN  /\ pushed = Len(tasks)
              /\ \A i \in 1..Len(tasks) :
                    \E j \in 1..pushed :
                        /\ active_nodes'[j].value.task = Some(tasks[i])
                        /\ active_nodes'[j].parent = Some(parent)
                        /\ active_nodes'[j].value.world =
                              Merged(parent.value.world, Postconditions(tasks[i]))
                        /\ active_nodes'[j].value.depth = parent.value.depth + 1]_vars

(***************************************************************************)
(* C31  Frontier order: the children of an expanded node are put in front  *)
(* of every node that was already pending, and the siblings follow the     *)
(* available-task list order: the node the next generate_single pops is    *)
(* the child of the first applicable task of the list, and the siblings    *)
(* are then taken in list order.                                           *)
(***************************************************************************)
ChildrenFirstInListOrder ==
    [][Expanding =>
          LET parent == Head(active_nodes)
              tasks == Applicable(parent.value.world)
              pending == Tail(active_nodes)
          IN  /\ Len(active_nodes') = Len(tasks) + Len(pending)
              /\ \A i \in 1..Len(tasks) :
                    /\ active_nodes'[i].parent = Some(parent)
                    /\ active_nodes'[i].value.task = Some(tasks[i])
              /\ \A i \in 1..Len(pending) :
                    active_nodes'[Len(tasks) + i] = pending[i]]_vars

\* the nodes above a node in its parent chain
RECURSIVE Ancestors(_)
Ancestors(node) ==
    IF node.parent = None THEN {}
    ELSE {unwrap(node.parent)} \cup Ancestors(unwrap(node.parent))

\* the nodes of the frontier and of the accepted-leaf set
HeldNodes ==
    {active_nodes[i] : i \in 1..Len(active_nodes)} \cup
    {valid_nodes[i] : i \in 1..Len(valid_nodes)}

DepthLimit ==
    /\ [](\A node \in HeldNodes : node.value.depth <= unwrap(max_node_depth))
    /\ [](\A n \in DOMAIN plans : Len(plans[n].tasks) <= unwrap(max_node_depth) + 1)
    /\ [][(pc = "generate" /\ active_nodes # <<>>
              /\ Head(active_nodes).value.depth >= unwrap(max_node_depth)) =>
              /\ active_nodes' = Tail(active_nodes)
              /\ valid_nodes' =
                    IF Holds(goal.requires, Head(active_nodes).value.world)
                    THEN Append(valid_nodes, Head(active_nodes))
                    ELSE valid_nodes]_vars

\* under the limit 1 a leaf of depth 1 was accepted (a plan of two tasks is
\* stored), and the node to pop next has depth 1, misses the goal and has
\* applicable tasks
DepthLimitWitness ==
    /\ max_node_depth = Some(1)
    /\ pc = "emit"
    /\ PursuedGoal.name \in DOMAIN plans
    /\ Len(plans[PursuedGoal.name].tasks) = 2
    /\ valid_nodes = <<>>
    /\ active_nodes # <<>>
    /\ Head(active_nodes).value.depth = 1
    /\ ~Holds(goal.requires, Head(active_nodes).value.world)
    /\ Applicable(Head(active_nodes).value.world) # <<>>

\* the stored plan for the pursued goal can be run from world
StoredPlanRuns(world) ==
    Executable(ExecutionOrder(plans[PursuedGoal.name]), world, PursuedGoal.requires)

(***************************************************************************)
(* C34  Stored plan matches the current world: after any sequence of       *)
(* generate calls on one planner with possibly different starting worlds,  *)
(* whenever a call ends with an empty frontier the plan stored for the     *)
(* goal is executable from the starting world of the search pass that just *)
(* completed; a plan computed for an earlier world does not survive when   *)
(* it is not executable from the newer world.                              *)
(***************************************************************************)
StoredPlanFitsLastPass ==
    (PassDone /\ PursuedGoal.name \in DOMAIN plans) =>
        StoredPlanRuns(unwrap(seed_world))

(***************************************************************************)
(* C34, amended  The plan table changes only when a leaf is emitted, and   *)
(* the plan stored then is executable from the starting world of the pass  *)
(* that accepted the leaf; a stored plan stays in the table through every  *)
(* later pass that emits no leaf of equal or lower cost, whether or not it *)
(* is executable from that pass's starting world.                          *)
(***************************************************************************)
StoredPlanFitsItsPass ==
    /\ [][plans' # plans =>
              /\ pc = "emit"
              /\ DOMAIN plans' = {goal.name}
              /\ Executable(ExecutionOrder(plans'[goal.name]),
                            unwrap(seed_world), goal.requires)
              /\ goal.name \in DOMAIN plans =>
                    plans'[goal.name].cost <= plans[goal.name].cost]_vars
    /\ [][(PursuedGoal.name \in DOMAIN plans /\ seed_world' # seed_world) =>
              plans' = plans]_vars

\* a pass seeded from a newer world has ended, and the plan in the table is
\* the one of an earlier pass, which cannot be run from the newer world
StoredPlanFitsItsPassWitness ==
    /\ PassDone
    /\ passes = 2
    /\ PursuedGoal.name \in DOMAIN plans
    /\ ~StoredPlanRuns(unwrap(seed_world))
    /\ \E w \in WorldChoices : StoredPlanRuns(w)

\* a step of the execution systems activates a task
Activating ==
    /\ agent_current_task' # None
    /\ agent_state' = Some("Running")
    /\ agent_state # Some("Running")

\* the tasks a step of the execution systems deactivates
DeactivatedInStep ==
    {activations'[i].task : i \in {j \in (Len(activations) + 1)..Len(activations') :
                                      activations'[j].ev = "remove"}}

(***************************************************************************)
(* C35  At most one active task per agent: over any sequence of plan       *)
(* extraction, Running / Success / Failure reports and HtnPlanInvalidated  *)
(* events, an agent never has more than one task activated and not yet     *)
(* deactivated; whenever the current-task, state and plan components are   *)
(* removed, the task that was active has been deactivated before a task of *)
(* a later plan is activated.                                              *)
(***************************************************************************)
AtMostOneActiveTask ==
    /\ [](Cardinality(agent_components) <= 1)
    /\ [][Activating => agent_components \subseteq DeactivatedInStep]_vars

\* the goal the agent's policy selects: next_goal under the default, Top
SelectedGoal == GoalEvaluation_next_goal(agent_goals)

(***************************************************************************)
(* C36  Planner and selector agree on the goal: when the agent's goal list *)
(* and its planner are built from the same goals, the goal the default Top *)
(* policy returns is the goal the planner pursues and stores plans for; so *)
(* once the planner has stored a plan, plan extraction finds it and        *)
(* attaches an HtnAgentPlan to the agent.                                  *)
(***************************************************************************)
SelectorAgreesWithPlanner ==
    /\ agent_goals # <<>> => SelectedGoal = Some(PursuedGoal)
    /\ plans # EmptyMap => unwrap(SelectedGoal).name \in DOMAIN plans

\* the names of the tasks of a stored plan, in stored order
StoredStack(plan) == [i \in 1..Len(plan.tasks) |-> plan.tasks[i].name]

\* the agent's selected goal has a plan in the plan table
SelectedGoalPlanned ==
    /\ SelectedGoal # None
    /\ unwrap(SelectedGoal).name \in DOMAIN plans

(***************************************************************************)
(* C37  Plan extraction never disturbs a plan in progress: a plan is       *)
(* attached only to an agent that has no HtnAgentPlan, the attached task   *)
(* stack is the stored plan for the goal the agent's goal-selection policy *)
(* chooses, and an agent whose selected goal has no stored plan is left    *)
(* unplanned.                                                              *)
(***************************************************************************)
ExtractionOnlyForUnplanned ==
    /\ [][agent_plan # None =>
              \/ agent_plan' = agent_plan
              \/ agent_plan' = None
              \/ /\ unwrap(agent_plan) # <<>>
                 /\ agent_plan' = Some(Front(unwrap(agent_plan)))]_vars
    /\ [][(agent_plan = None /\ agent_plan' # None) =>
              /\ SelectedGoalPlanned
              /\ agent_plan' = Some(StoredStack(plans[unwrap(SelectedGoal).name]))]_vars
    /\ [][(agent_plan = None /\ ~SelectedGoalPlanned) =>
              /\ agent_plan' = None
              /\ UNCHANGED <<agent_state, agent_current_task, agent_components>>]_vars

\* the agent is running the second task of an attached plan of two tasks
\* while that plan is still in the plan table
ExtractionOnlyForUnplannedWitness ==
    /\ agent_plan = Some(<<>>)
    /\ agent_state = Some("Running")
    /\ Len(activations) = 3
    /\ SelectedGoalPlanned
    /\ Len(plans[unwrap(SelectedGoal).name].tasks) = 2

\* the planner has stored a plan for another goal than the selected one, and
\* the agent is without a plan
LeftUnplannedWitness ==
    /\ agent_plan = None
    /\ plans # EmptyMap
    /\ SelectedGoal # None
    /\ ~SelectedGoalPlanned
    /\ PassDone

\* the node a parent chain ends at
RECURSIVE ChainRoot(_)
ChainRoot(node) ==
    IF node.parent = None THEN node ELSE ChainRoot(unwrap(node.parent))

\* a node as try_seed_active_nodes builds it: no parent, depth 0, a task
IsSeedNode(node) ==
    /\ node.parent = None
    /\ node.value.depth = 0
    /\ node.value.task # None

(***************************************************************************)
(* C38  Every search node carries a task: every node of the frontier and   *)
(* of the accepted-leaf set has a task, and so has every node of its       *)
(* parent chain; the chain has as many nodes above the node as the node is *)
(* deep and ends at a parentless seed node, so the leaf-to-root walk of    *)
(* unravel_plan ends after depth + 1 tasks and never meets an absent task. *)
(***************************************************************************)
EveryNodeCarriesTask ==
    \A node \in HeldNodes :
        /\ node.value.task # None
        /\ \A above \in Ancestors(node) : above.value.task # None
        /\ Cardinality(Ancestors(node)) = node.value.depth
        /\ IsSeedNode(ChainRoot(node))
        /\ Len(unravel_plan(node).tasks) = node.value.depth + 1

\* an accepted leaf two levels below its seed node
EveryNodeCarriesTaskWitness ==
    \E i \in 1..Len(valid_nodes) :
        /\ valid_nodes[i].value.depth = 2
        /\ Cardinality(Ancestors(valid_nodes[i])) = 2
        /\ IsSeedNode(ChainRoot(valid_nodes[i]))

\* the starting world of the search already meets the pursued goal
GoalMetAtStart == goals # <<>> /\ Holds(PursuedGoal.requires, current_world)

(***************************************************************************)
(* C39  Stored plans are never empty: every plan in the plan table has at  *)
(* least one task, also when the starting world already satisfies the      *)
(* goal's requirements; a stored plan of one task then is a seed whose     *)
(* resulting world still satisfies the goal.                               *)
(***************************************************************************)
StoredPlansNotEmpty ==
    \A n \in DOMAIN plans :
        /\ Len(plans[n].tasks) >= 1
        /\ (GoalMetAtStart /\ n = PursuedGoal.name /\ Len(plans[n].tasks) = 1) =>
               Holds(PursuedGoal.requires,
                     Merged(current_world, Registry[plans[n].tasks[1].name].postcon))

\* a plan of one task is stored for a goal the starting world already meets
StoredPlansNotEmptyWitness ==
    /\ GoalMetAtStart
    /\ PursuedGoal.name \in DOMAIN plans
    /\ Len(plans[PursuedGoal.name].tasks) = 1

\* the starting world meets the goal, a pass has run to its end, and nothing
\* is stored
NothingStoredWitness ==
    /\ GoalMetAtStart
    /\ PassDone
    /\ valid_nodes = <<>>
    /\ plans = EmptyMap

\* a plan of more than one task is stored for a goal the starting world meets
LongerPlanStoredWitness ==
    /\ GoalMetAtStart
    /\ PursuedGoal.name \in DOMAIN plans
    /\ Len(plans[PursuedGoal.name].tasks) > 1

=============================================================================
